---- MODULE Spec2Model ----
(***************************************************************************)
(* Model of the AIPIX raster-editing core (src-tauri): the PixelBuffer,    *)
(* the drawing tools, the Selection mask, the snapshot CanvasHistory and   *)
(* the host commands of main.rs that operate on the lock-protected         *)
(* registries of AppState.                                                 *)
(***************************************************************************)
EXTENDS Integers, Sequences, FiniteSets, TLC

VARIABLES
    canvases,    \* AppState.canvases : project id -> CanvasHistory | None
    selections,  \* AppState.selections : project id -> Selection | None
    clipboard,   \* AppState.clipboard : Option<(PixelBuffer, u32, u32)>
    renderer,    \* RendererState.renderer : Option<PixelRenderer>
    poisoned,    \* per mutex: a holder panicked (std::sync::Mutex poisoning)
    owner,       \* per mutex: the thread holding it, or Nobody
    pc,          \* per thread: the command in flight and its position
    ret,         \* the command that completed last and its outcome
    before,      \* canvases/selections/clipboard when that command was invoked
    steps,       \* the counter that bounds a behaviour (commands, writes, pushes)
    marks        \* observers of the history laws (see Observe)

vars == <<canvases, selections, clipboard, renderer, poisoned, owner, pc, ret, before,
         steps, marks>>

None == <<>>     \* Option::None (Some(v) is v itself)

(***************************************************************************)
(* Bounds of the model.                                                    *)
(***************************************************************************)
MaxSteps == 3        \* commands per behaviour of Spec
MaxDim == 2          \* canvases are MaxDim x 1 pixels
MaxDraws == 1        \* pixel writes per behaviour of CapSpec
ExtraPushes == 3     \* FifoSpec pushes up to MAX_HISTORY_SIZE + ExtraPushes states
MaxCalls == 3        \* commands per behaviour of ConcSpec
MaxColorCalls == 2   \* commands per behaviour of ColorSpec
MaxFills == 2        \* fills per behaviour of FillSpec
MaxRects == 3        \* rectangles of a dirty region of OptSpec
MaxSelects == 2      \* select_rectangle calls per behaviour of PickSpec
MaxSizeCalls == 3    \* commands per behaviour of SizeSpec

ProjectIds == {"p1"}
Threads == {"t1", "t2"}
Locks == {"canvases", "selections", "clipboard"}

(***************************************************************************)
(* Results.                                                                *)
(***************************************************************************)
Ok == [tag |-> "Ok"]
Err(m) == [tag |-> "Err", msg |-> m]
Panic == [tag |-> "Panic"]

RECURSIVE Flatten(_)
Flatten(ss) == IF ss = <<>> THEN <<>> ELSE Head(ss) \o Flatten(Tail(ss))

Min(a, b) == IF a < b THEN a ELSE b
Max(a, b) == IF a > b THEN a ELSE b
Abs(a) == IF a < 0 THEN -a ELSE a

(***************************************************************************)
(* tools.rs: hex_to_rgba.  A &str is a sequence of characters; a character *)
(* occupies Utf8Len bytes, and slicing at a byte index inside a character  *)
(* panics.                                                                 *)
(***************************************************************************)
HexDigits == <<"0", "1", "2", "3", "4", "5", "6", "7", "8", "9",
               "a", "b", "c", "d", "e", "f">>
UpperDigits == <<"0", "1", "2", "3", "4", "5", "6", "7", "8", "9",
                 "A", "B", "C", "D", "E", "F">>

IsHexDigit(c) == \E i \in 1..16 : HexDigits[i] = c \/ UpperDigits[i] = c
HexVal(c) == (CHOOSE i \in 1..16 : HexDigits[i] = c \/ UpperDigits[i] = c) - 1

Utf8Len(c) == IF c = "é" THEN 2 ELSE 1

\* the bytes of a string: each byte remembers its character and whether it
\* is the first byte of it
Utf8Bytes(s) ==
    Flatten([i \in 1..Len(s) |->
                [k \in 1..Utf8Len(s[i]) |-> [ch |-> s[i], first |-> (k = 1)]]])

is_char_boundary(bytes, k) ==
    k = 0 \/ k = Len(bytes) \/ (k < Len(bytes) /\ bytes[k + 1].first)

RECURSIVE trim_start_matches(_, _)
trim_start_matches(s, c) ==
    IF s # <<>> /\ Head(s) = c THEN trim_start_matches(Tail(s), c) ELSE s

\* the value of a run of hex digits, -1 when a character is not a digit
RECURSIVE ParseDigits(_, _)
ParseDigits(digits, acc) ==
    IF digits = <<>> THEN acc
    ELSE IF acc < 0 \/ ~IsHexDigit(Head(digits).ch) THEN -1
    ELSE ParseDigits(Tail(digits), acc * 16 + HexVal(Head(digits).ch))

\* u8::from_str_radix(slice, 16): an optional leading '+', then at least one
\* digit, the value fitting eight bits; -1 stands for Err
from_str_radix_u8(bytes) ==
    LET digits == IF bytes # <<>> /\ Head(bytes).ch = "+" THEN Tail(bytes) ELSE bytes
        v == ParseDigits(digits, 0)
    IN  IF digits = <<>> \/ v < 0 \/ v > 255 THEN -1 ELSE v

hex_to_rgba(hexstr) ==
    LET bytes == Utf8Bytes(trim_start_matches(hexstr, "#"))
        r == from_str_radix_u8(SubSeq(bytes, 1, 2))
        g == from_str_radix_u8(SubSeq(bytes, 3, 4))
        b == from_str_radix_u8(SubSeq(bytes, 5, 6))
    IN  IF Len(bytes) # 6 THEN Err("Invalid hex color format")
        ELSE IF ~is_char_boundary(bytes, 2) THEN Panic
        ELSE IF r < 0 THEN Err("Invalid hex color")
        ELSE IF ~is_char_boundary(bytes, 4) THEN Panic
        ELSE IF g < 0 THEN Err("Invalid hex color")
        ELSE IF b < 0 THEN Err("Invalid hex color")
        ELSE [tag |-> "Ok", val |-> <<r, g, b, 255>>]

\* `{:x}`: as few lowercase hex digits as the value needs
LowerHex(v) ==
    IF v < 16 THEN <<HexDigits[v + 1]>>
    ELSE <<HexDigits[(v \div 16) + 1], HexDigits[(v % 16) + 1]>>

\* rgba_to_hex that does not pad a channel to two digits
rgba_to_hex_NoPadding(rgba) ==
    <<"#">> \o LowerHex(rgba[1]) \o LowerHex(rgba[2]) \o LowerHex(rgba[3])

\* `{:02x}`: two lowercase hex digits of a u8
LowerHex02(v) == <<HexDigits[(v \div 16) + 1], HexDigits[(v % 16) + 1]>>

rgba_to_hex(rgba) ==
    <<"#">> \o LowerHex02(rgba[1]) \o LowerHex02(rgba[2]) \o LowerHex02(rgba[3])

(***************************************************************************)
(* pixel_buffer.rs                                                         *)
(***************************************************************************)
PixelBuffer_new(width, height) ==
    [width |-> width, height |-> height,
     data |-> [i \in 1..(width * height * 4) |-> 0]]

get_pixel(buffer, x, y) ==
    IF x >= buffer.width \/ y >= buffer.height THEN None
    ELSE LET index == (y * buffer.width + x) * 4
         IN  <<buffer.data[index + 1], buffer.data[index + 2],
               buffer.data[index + 3], buffer.data[index + 4]>>

\* Result<(), String> together with the buffer as the call leaves it
set_pixel(buffer, x, y, color) ==
    IF x >= buffer.width \/ y >= buffer.height
    THEN [res |-> Err("Pixel coordinates out of bounds"), buffer |-> buffer]
    ELSE LET index == (y * buffer.width + x) * 4
         IN  [res |-> Ok,
              buffer |-> [buffer EXCEPT !.data =
                            [i \in 1..Len(buffer.data) |->
                                IF i > index /\ i <= index + 4
                                THEN color[i - index] ELSE buffer.data[i]]]]

(***************************************************************************)
(* tools.rs: the drawing tools.  Each returns the Result and the buffer as  *)
(* the call leaves it: a loop that exits through `?` keeps the pixels it   *)
(* has already written.                                                    *)
(***************************************************************************)
pencil(buffer, x, y, color) == set_pixel(buffer, x, y, color)

eraser(buffer, x, y) == set_pixel(buffer, x, y, <<0, 0, 0, 0>>)

eyedropper(buffer, x, y) == get_pixel(buffer, x, y)

\* `for p in pts { if p.0 >= 0 && p.1 >= 0 { buffer.set_pixel(p, color)?; } }`
\* (the sign test is vacuous for the u32 callers)
RECURSIVE set_pixels(_, _, _)
set_pixels(buffer, pts, color) ==
    IF pts = <<>> THEN [res |-> Ok, buffer |-> buffer]
    ELSE LET p == Head(pts)
             r == IF p[1] >= 0 /\ p[2] >= 0
                  THEN set_pixel(buffer, p[1], p[2], color)
                  ELSE [res |-> Ok, buffer |-> buffer]
         IN  IF r.res.tag = "Ok" THEN set_pixels(r.buffer, Tail(pts), color)
             ELSE r

\* the `loop` of line; `path` lists the points it visits, in order
RECURSIVE line_loop(_, _, _, _, _, _, _, _, _, _, _)
line_loop(buffer, x, y, x1, y1, dx, dy, sx, sy, err, color) ==
    LET r == IF x >= 0 /\ y >= 0 THEN set_pixel(buffer, x, y, color)
             ELSE [res |-> Ok, buffer |-> buffer]
        e2 == 2 * err
        stepx == e2 >= dy
        stepy == e2 <= dx
    IN  IF r.res.tag # "Ok" \/ (x = x1 /\ y = y1)
        THEN [res |-> r.res, buffer |-> r.buffer, path |-> << <<x, y>> >>]
        ELSE LET after == line_loop(r.buffer,
                                    IF stepx THEN x + sx ELSE x,
                                    IF stepy THEN y + sy ELSE y,
                                    x1, y1, dx, dy, sx, sy,
                                    err + (IF stepx THEN dy ELSE 0)
                                        + (IF stepy THEN dx ELSE 0),
                                    color)
             IN  [after EXCEPT !.path = << <<x, y>> >> \o @]

line(buffer, x0, y0, x1, y1, color) ==
    LET dx == Abs(x1 - x0)
        dy == -Abs(y1 - y0)
        sx == IF x0 < x1 THEN 1 ELSE -1
        sy == IF y0 < y1 THEN 1 ELSE -1
    IN  line_loop(buffer, x0, y0, x1, y1, dx, dy, sx, sy, dx + dy, color)

\* the pixels of a `for y in ylo..=yhi { for x in xlo..=xhi { .. } }` nest
Rows(xlo, xhi, ylo, yhi) ==
    IF xhi < xlo \/ yhi < ylo THEN <<>>
    ELSE LET w == xhi - xlo + 1
         IN  [i \in 1..(w * (yhi - ylo + 1)) |->
                 <<xlo + ((i - 1) % w), ylo + ((i - 1) \div w)>>]

\* rectangle that takes the first corner as the least one
rectangle_NoNormalize(buffer, x0, y0, x1, y1, color, filled) ==
    IF filled THEN set_pixels(buffer, Rows(x0, x1, y0, y1), color)
    ELSE set_pixels(buffer,
                    Flatten([i \in 1..(x1 - x0 + 1) |->
                                << <<x0 + i - 1, y0>>, <<x0 + i - 1, y1>> >>])
                    \o Flatten([i \in 1..(y1 - y0 + 1) |->
                                << <<x0, y0 + i - 1>>, <<x1, y0 + i - 1>> >>]),
                    color)

rectangle(buffer, x0, y0, x1, y1, color, filled) ==
    LET min_x == Min(x0, x1)
        max_x == Max(x0, x1)
        min_y == Min(y0, y1)
        max_y == Max(y0, y1)
        top_bottom == Flatten([i \in 1..(max_x - min_x + 1) |->
                          << <<min_x + i - 1, min_y>>, <<min_x + i - 1, max_y>> >>])
        left_right == Flatten([i \in 1..(max_y - min_y + 1) |->
                          << <<min_x, min_y + i - 1>>, <<max_x, min_y + i - 1>> >>])
    IN  IF filled
        THEN set_pixels(buffer, Rows(min_x, max_x, min_y, max_y), color)
        ELSE set_pixels(buffer, top_bottom \o left_right, color)

\* fill_loop that also queues the diagonal neighbours
fill_loop_Diagonal(buffer, queue, target_color, new_color) ==
    LET Reach(cells) ==
            cells \cup {q \in (0..(buffer.width - 1)) \X (0..(buffer.height - 1)) :
                           /\ get_pixel(buffer, q[1], q[2]) = target_color
                           /\ \E p \in cells : /\ Abs(p[1] - q[1]) <= 1
                                                /\ Abs(p[2] - q[2]) <= 1}
        all == Reach(Reach(Reach(Reach({Head(queue)}))))
    IN  [res |-> Ok, writes |-> <<>>,
         buffer |-> [buffer EXCEPT !.data =
                       [i \in 1..Len(buffer.data) |->
                           IF <<((i - 1) \div 4) % buffer.width,
                                ((i - 1) \div 4) \div buffer.width>> \in all
                           THEN new_color[((i - 1) % 4) + 1] ELSE buffer.data[i]]]]

\* fill_loop that writes a dequeued pixel again when it already has the new
\* colour
RECURSIVE fill_loop_RewritesFilled(_, _, _, _)
fill_loop_RewritesFilled(buffer, queue, target_color, new_color) ==
    IF queue = <<>> THEN [res |-> Ok, buffer |-> buffer, writes |-> <<>>]
    ELSE LET px == Head(queue)[1]
             py == Head(queue)[2]
             width == buffer.width
             height == buffer.height
             rest == Tail(queue)
         IN  IF px >= width \/ py >= height
             THEN fill_loop_RewritesFilled(buffer, rest, target_color, new_color)
             ELSE IF get_pixel(buffer, px, py) = new_color
             THEN LET after == fill_loop_RewritesFilled(buffer, rest, target_color,
                                                        new_color)
                  IN  [after EXCEPT !.writes = << <<px, py>> >> \o @]
             ELSE IF get_pixel(buffer, px, py) # target_color
             THEN fill_loop_RewritesFilled(buffer, rest, target_color, new_color)
             ELSE LET r == set_pixel(buffer, px, py, new_color)
                      q == rest
                           \o (IF px > 0 THEN << <<px - 1, py>> >> ELSE <<>>)
                           \o (IF px < width - 1 THEN << <<px + 1, py>> >> ELSE <<>>)
                           \o (IF py > 0 THEN << <<px, py - 1>> >> ELSE <<>>)
                           \o (IF py < height - 1 THEN << <<px, py + 1>> >> ELSE <<>>)
                      after == fill_loop_RewritesFilled(r.buffer, q, target_color,
                                                        new_color)
                  IN  [after EXCEPT !.writes = << <<px, py>> >> \o @]

\* the `while let Some((px, py)) = queue.pop_front()` loop; `writes` lists
\* the cells of its set_pixel calls in call order
RECURSIVE fill_loop(_, _, _, _)
fill_loop(buffer, queue, target_color, new_color) ==
    IF queue = <<>> THEN [res |-> Ok, buffer |-> buffer, writes |-> <<>>]
    ELSE LET px == Head(queue)[1]
             py == Head(queue)[2]
             width == buffer.width
             height == buffer.height
             rest == Tail(queue)
         IN  IF px >= width \/ py >= height
             THEN fill_loop(buffer, rest, target_color, new_color)
             ELSE IF get_pixel(buffer, px, py) # target_color
             THEN fill_loop(buffer, rest, target_color, new_color)
             ELSE LET r == set_pixel(buffer, px, py, new_color)
                      q == rest
                           \o (IF px > 0 THEN << <<px - 1, py>> >> ELSE <<>>)
                           \o (IF px < width - 1 THEN << <<px + 1, py>> >> ELSE <<>>)
                           \o (IF py > 0 THEN << <<px, py - 1>> >> ELSE <<>>)
                           \o (IF py < height - 1 THEN << <<px, py + 1>> >> ELSE <<>>)
                  IN  IF r.res.tag # "Ok"
                      THEN [res |-> r.res, buffer |-> r.buffer,
                            writes |-> << <<px, py>> >>]
                      ELSE LET after == fill_loop(r.buffer, q, target_color, new_color)
                           IN  [after EXCEPT !.writes = << <<px, py>> >> \o @]

\* fill that erases the seed when it already has the new colour
fill_ErasesSameColor(buffer, x, y, new_color) ==
    LET target_color == get_pixel(buffer, x, y)
    IN  IF target_color = None
        THEN [res |-> Err("Invalid starting position"), buffer |-> buffer,
              writes |-> <<>>]
        ELSE IF target_color = new_color
        THEN [res |-> Ok, buffer |-> eraser(buffer, x, y).buffer,
              writes |-> << <<x, y>> >>]
        ELSE fill_loop(buffer, << <<x, y>> >>, target_color, new_color)

\* Result<(), String>, the buffer as the call leaves it and the cells of its
\* set_pixel calls
fill(buffer, x, y, new_color) ==
    LET target_color == get_pixel(buffer, x, y)
    IN  IF target_color = None
        THEN [res |-> Err("Invalid starting position"), buffer |-> buffer,
              writes |-> <<>>]
        ELSE IF target_color = new_color
        THEN [res |-> Ok, buffer |-> buffer, writes |-> <<>>]
        ELSE fill_loop(buffer, << <<x, y>> >>, target_color, new_color)

\* ((dx*dx + dy*dy) as f64).sqrt().round(): the nearest integer to the root
RoundSqrt(n) ==
    CHOOSE r \in 0..n :
        /\ (r = 0 \/ (2 * r - 1) * (2 * r - 1) <= 4 * n)
        /\ (2 * r + 1) * (2 * r + 1) > 4 * n

RECURSIVE circle_outline(_, _, _, _, _, _, _)
circle_outline(buffer, center_x, center_y, x, y, decision_over_2, color) ==
    IF ~(y <= x) THEN [res |-> Ok, buffer |-> buffer]
    ELSE LET points == << <<center_x + x, center_y + y>>,
                          <<center_x - x, center_y + y>>,
                          <<center_x + x, center_y - y>>,
                          <<center_x - x, center_y - y>>,
                          <<center_x + y, center_y + x>>,
                          <<center_x - y, center_y + x>>,
                          <<center_x + y, center_y - x>>,
                          <<center_x - y, center_y - x>> >>
             r == set_pixels(buffer, points, color)
             y2 == y + 1
         IN  IF r.res.tag # "Ok" THEN r
             ELSE IF decision_over_2 <= 0
             THEN circle_outline(r.buffer, center_x, center_y, x, y2,
                                 decision_over_2 + 2 * y2 + 1, color)
             ELSE circle_outline(r.buffer, center_x, center_y, x - 1, y2,
                                 decision_over_2 + 2 * (y2 - (x - 1)) + 1, color)

circle(buffer, center_x, center_y, end_x, end_y, color, filled) ==
    LET dx == end_x - center_x
        dy == end_y - center_y
        radius == RoundSqrt(dx * dx + dy * dy)
        disc == SelectSeq(Rows(-radius, radius, -radius, radius),
                          LAMBDA p : p[1] * p[1] + p[2] * p[2] <= radius * radius)
    IN  IF radius = 0 THEN [res |-> Ok, buffer |-> buffer]
        ELSE IF filled
        THEN set_pixels(buffer,
                        [i \in 1..Len(disc) |->
                            <<center_x + disc[i][1], center_y + disc[i][2]>>],
                        color)
        ELSE circle_outline(buffer, center_x, center_y, radius, 0, 1 - radius, color)

\* whole-buffer scan; RGB compared, alpha ignored; set_pixel cannot fail here
replace_all_color(buffer, target_color, new_color) ==
    [buffer EXCEPT !.data =
        [i \in 1..Len(buffer.data) |->
            LET base == ((i - 1) \div 4) * 4
            IN  IF /\ buffer.data[base + 1] = target_color[1]
                   /\ buffer.data[base + 2] = target_color[2]
                   /\ buffer.data[base + 3] = target_color[3]
                THEN new_color[i - base] ELSE buffer.data[i]]]

(***************************************************************************)
(* tools.rs: Selection and the clipboard helpers.                          *)
(***************************************************************************)
Selection_new(width, height) ==
    [width |-> width, height |-> height,
     mask |-> [i \in 1..(width * height) |-> FALSE],
     bounds |-> None]

is_empty(selection) == selection.bounds = None

clear(selection) ==
    [selection EXCEPT !.mask = [i \in 1..Len(selection.mask) |-> FALSE],
                      !.bounds = None]

is_selected(selection, x, y) ==
    IF x < selection.width /\ y < selection.height
    THEN selection.mask[y * selection.width + x + 1]
    ELSE FALSE

SelectedCells(selection) ==
    {p \in (0..(selection.width - 1)) \X (0..(selection.height - 1)) :
        is_selected(selection, p[1], p[2])}

SetMin(S) == CHOOSE m \in S : \A n \in S : m <= n
SetMax(S) == CHOOSE m \in S : \A n \in S : m >= n

update_bounds(selection) ==
    LET cells == SelectedCells(selection)
    IN  [selection EXCEPT !.bounds =
            IF cells # {}
            THEN [min_x |-> SetMin({p[1] : p \in cells}),
                  max_x |-> SetMax({p[1] : p \in cells}),
                  min_y |-> SetMin({p[2] : p \in cells}),
                  max_y |-> SetMax({p[2] : p \in cells})]
            ELSE None]

\* a - b on u32 where a < b: a panic in a build with overflow checks, the
\* residue modulo 2^32 otherwise.  The residue is written with its signed
\* 32-bit twin (-1 for 4294967295), the checker's integers being 32 bits wide.
wrapping_sub(a, b) == a - b

\* mask.fill(true), then the bounds from `width - 1` and `height - 1`
select_all(selection, overflow_checks) ==
    LET filled == [selection EXCEPT !.mask = [i \in 1..Len(selection.mask) |-> TRUE]]
    IN  IF overflow_checks /\ (selection.width < 1 \/ selection.height < 1)
        THEN [res |-> Panic, selection |-> filled]
        ELSE [res |-> Ok,
              selection |-> [filled EXCEPT
                  !.bounds = [min_x |-> 0,
                              max_x |-> wrapping_sub(selection.width, 1),
                              min_y |-> 0,
                              max_y |-> wrapping_sub(selection.height, 1)]]]

invert(selection) ==
    update_bounds([selection EXCEPT !.mask =
                      [i \in 1..Len(selection.mask) |-> ~selection.mask[i]]])

\* Option<(PixelBuffer, u32, u32)>: the selected pixels inside the bounds
extract_selection(buffer, selection) ==
    IF selection.bounds = None THEN None
    ELSE LET bounds == selection.bounds
             width == bounds.max_x - bounds.min_x + 1
             height == bounds.max_y - bounds.min_y + 1
             src(i) == LET cell == (i - 1) \div 4
                       IN  <<bounds.min_x + (cell % width),
                             bounds.min_y + (cell \div width)>>
         IN  [buffer |->
                [width |-> width, height |-> height,
                 data |-> [i \in 1..(width * height * 4) |->
                    IF /\ is_selected(selection, src(i)[1], src(i)[2])
                       /\ get_pixel(buffer, src(i)[1], src(i)[2]) # None
                    THEN get_pixel(buffer, src(i)[1], src(i)[2])[((i - 1) % 4) + 1]
                    ELSE 0]],
              offset_x |-> bounds.min_x, offset_y |-> bounds.min_y]

\* every selected pixel of the buffer becomes transparent; set_pixel's error
\* for a cell outside the buffer is discarded
delete_selection(buffer, selection) ==
    [buffer EXCEPT !.data =
        [i \in 1..Len(buffer.data) |->
            LET cell == (i - 1) \div 4
                x == cell % buffer.width
                y == cell \div buffer.width
            IN  IF is_selected(selection, x, y) THEN 0 ELSE buffer.data[i]]]

\* source pixels with a non-zero alpha overwrite the destination at the
\* offset; the inner set_pixel is guarded by the bounds test and cannot fail
paste_buffer(dest, source, offset_x, offset_y) ==
    [res |-> Ok,
     buffer |-> [dest EXCEPT !.data =
        [i \in 1..Len(dest.data) |->
            LET cell == (i - 1) \div 4
                sx == (cell % dest.width) - offset_x
                sy == (cell \div dest.width) - offset_y
                color == get_pixel(source, sx, sy)
            IN  IF sx >= 0 /\ sy >= 0 /\ color # None /\ color[4] > 0
                THEN color[((i - 1) % 4) + 1] ELSE dest.data[i]]]]

(***************************************************************************)
(* history.rs: CanvasHistory                                               *)
(***************************************************************************)
MAX_HISTORY_SIZE == 50

CanvasHistory_new(width, height) ==
    [buffer |-> PixelBuffer_new(width, height),
     undo_stack |-> <<>>,
     redo_stack |-> <<>>]

\* push_state without the eviction of the oldest snapshot
push_state_NoEvict(history) ==
    [history EXCEPT !.undo_stack = Append(@, history.buffer.data),
                    !.redo_stack = <<>>]

\* push_state that leaves the redo stack alone
push_state_KeepsRedo(history) ==
    LET pushed == Append(history.undo_stack, history.buffer.data)
    IN  [history EXCEPT
            !.undo_stack = IF Len(pushed) > MAX_HISTORY_SIZE
                           THEN Tail(pushed) ELSE pushed]

\* push_state that drops the snapshot it has just pushed when over the cap
push_state_EvictsNewest(history) ==
    LET pushed == Append(history.undo_stack, history.buffer.data)
    IN  [history EXCEPT
            !.undo_stack = IF Len(pushed) > MAX_HISTORY_SIZE
                           THEN SubSeq(pushed, 1, Len(pushed) - 1) ELSE pushed,
            !.redo_stack = <<>>]

push_state(history) ==
    LET pushed == Append(history.undo_stack, history.buffer.data)
    IN  [history EXCEPT
            !.undo_stack = IF Len(pushed) > MAX_HISTORY_SIZE
                           THEN Tail(pushed) ELSE pushed,
            !.redo_stack = <<>>]

\* undo that restores the oldest snapshot instead of the newest
undo_RestoresOldest(history) ==
    IF history.undo_stack # <<>>
    THEN [res |-> Ok,
          history |-> [history EXCEPT
              !.undo_stack = SubSeq(@, 1, Len(@) - 1),
              !.redo_stack = Append(@, history.buffer.data),
              !.buffer.data = history.undo_stack[1]]]
    ELSE [res |-> Err("Nothing to undo"), history |-> history]

\* undo that reads the newest snapshot without popping it
undo_PeeksOnly(history) ==
    IF history.undo_stack # <<>>
    THEN [res |-> Ok,
          history |-> [history EXCEPT
              !.redo_stack = Append(@, history.buffer.data),
              !.buffer.data = history.undo_stack[Len(history.undo_stack)]]]
    ELSE [res |-> Err("Nothing to undo"), history |-> history]

undo(history) ==
    IF history.undo_stack # <<>>
    THEN [res |-> Ok,
          history |-> [history EXCEPT
              !.undo_stack = SubSeq(@, 1, Len(@) - 1),
              !.redo_stack = Append(@, history.buffer.data),
              !.buffer.data = history.undo_stack[Len(history.undo_stack)]]]
    ELSE [res |-> Err("Nothing to undo"), history |-> history]

\* redo that does not save the current buffer on the undo stack
redo_SkipsSave(history) ==
    IF history.redo_stack # <<>>
    THEN [res |-> Ok,
          history |-> [history EXCEPT
              !.redo_stack = SubSeq(@, 1, Len(@) - 1),
              !.buffer.data = history.redo_stack[Len(history.redo_stack)]]]
    ELSE [res |-> Err("Nothing to redo"), history |-> history]

\* redo that saves the current buffer before looking at the redo stack
redo_SavesBeforeCheck(history) ==
    IF history.redo_stack # <<>>
    THEN [res |-> Ok,
          history |-> [history EXCEPT
              !.redo_stack = SubSeq(@, 1, Len(@) - 1),
              !.undo_stack = Append(@, history.buffer.data),
              !.buffer.data = history.redo_stack[Len(history.redo_stack)]]]
    ELSE [res |-> Err("Nothing to redo"),
          history |-> [history EXCEPT !.undo_stack = Append(@, history.buffer.data)]]

redo(history) ==
    IF history.redo_stack # <<>>
    THEN [res |-> Ok,
          history |-> [history EXCEPT
              !.redo_stack = SubSeq(@, 1, Len(@) - 1),
              !.undo_stack = Append(@, history.buffer.data),
              !.buffer.data = history.redo_stack[Len(history.redo_stack)]]]
    ELSE [res |-> Err("Nothing to redo"), history |-> history]

can_undo(history) == history.undo_stack # <<>>

can_redo(history) == history.redo_stack # <<>>

undo_count(history) == Len(history.undo_stack)

redo_count(history) == Len(history.redo_stack)

clear_history(history) ==
    [history EXCEPT !.undo_stack = <<>>, !.redo_stack = <<>>]

(***************************************************************************)
(* tools.rs: the selection modes and the magic wand.                       *)
(***************************************************************************)
\* apply_selection_mode whose Subtract arm keeps the overlap instead of
\* removing it
apply_selection_mode_SubtractKeepsOverlap(selection, new_mask, mode) ==
    [selection EXCEPT !.mask =
        [i \in 1..Len(selection.mask) |->
            CASE mode = "Replace" -> new_mask[i]
              [] mode = "Add" -> selection.mask[i] \/ new_mask[i]
              [] mode = "Subtract" -> selection.mask[i] /\ new_mask[i]
              [] mode = "Intersect" -> selection.mask[i] /\ new_mask[i]]]

apply_selection_mode(selection, new_mask, mode) ==
    [selection EXCEPT !.mask =
        [i \in 1..Len(selection.mask) |->
            CASE mode = "Replace" -> new_mask[i]
              [] mode = "Add" -> selection.mask[i] \/ new_mask[i]
              [] mode = "Subtract" -> selection.mask[i] /\ ~new_mask[i]
              [] mode = "Intersect" -> selection.mask[i] /\ new_mask[i]]]

color_distance(c1, c2) ==
    LET dr == Abs(c1[1] - c2[1])
        dg == Abs(c1[2] - c2[2])
        db == Abs(c1[3] - c2[3])
    IN  Min((dr + dg + db) \div 3, 255)

\* the breadth-first search of select_magic_wand over the selection's extent;
\* temp_mask and visited are sets of mask indices
RECURSIVE wand_loop(_, _, _, _, _, _, _, _)
wand_loop(buffer, width, height, queue, temp_mask, visited, target_color, tolerance) ==
    IF queue = <<>> THEN temp_mask
    ELSE LET px == Head(queue)[1]
             py == Head(queue)[2]
             rest == Tail(queue)
             index == py * width + px
             current_color == get_pixel(buffer, px, py)
             admitted == /\ current_color # None
                         /\ color_distance(current_color, target_color) <= tolerance
             q == rest
                  \o (IF px > 0 THEN << <<px - 1, py>> >> ELSE <<>>)
                  \o (IF px < width - 1 THEN << <<px + 1, py>> >> ELSE <<>>)
                  \o (IF py > 0 THEN << <<px, py - 1>> >> ELSE <<>>)
                  \o (IF py < height - 1 THEN << <<px, py + 1>> >> ELSE <<>>)
         IN  IF px >= width \/ py >= height \/ index \in visited
             THEN wand_loop(buffer, width, height, rest, temp_mask, visited,
                            target_color, tolerance)
             ELSE IF admitted
             THEN wand_loop(buffer, width, height, q, temp_mask \cup {index},
                            visited \cup {index}, target_color, tolerance)
             ELSE wand_loop(buffer, width, height, rest, temp_mask,
                            visited \cup {index}, target_color, tolerance)

select_magic_wand(buffer, selection, x, y, tolerance, mode) ==
    LET target_color == get_pixel(buffer, x, y)
        found == wand_loop(buffer, selection.width, selection.height,
                           << <<x, y>> >>, {}, {}, target_color, tolerance)
        temp_mask == [i \in 1..Len(selection.mask) |-> (i - 1) \in found]
    IN  IF target_color = None
        THEN [res |-> Err("Invalid starting position"), selection |-> selection]
        ELSE [res |-> Ok,
              selection |-> update_bounds(
                                apply_selection_mode(selection, temp_mask, mode))]

\* the cell of mask index i (from 1) of a selection that is `width` wide
CellX(i, width) == (i - 1) % width
CellY(i, width) == (i - 1) \div width

\* select_rectangle that leaves out the row and the column of the far corner
select_rectangle_Exclusive(selection, x0, y0, x1, y1, mode) ==
    LET temp_mask == [i \in 1..Len(selection.mask) |->
                         /\ CellX(i, selection.width) \in Min(x0, x1)..(Max(x0, x1) - 1)
                         /\ CellY(i, selection.width) \in Min(y0, y1)..(Max(y0, y1) - 1)]
    IN  update_bounds(apply_selection_mode(selection, temp_mask, mode))

select_rectangle(selection, x0, y0, x1, y1, mode) ==
    LET min_x == Min(x0, x1)
        max_x == Max(x0, x1)
        min_y == Min(y0, y1)
        max_y == Max(y0, y1)
        temp_mask == [i \in 1..Len(selection.mask) |->
                         /\ CellX(i, selection.width) \in min_x..max_x
                         /\ CellY(i, selection.width) \in min_y..max_y]
    IN  update_bounds(apply_selection_mode(selection, temp_mask, mode))

\* (rel_x / dx)^2 + (rel_y / dy)^2 <= 1.0, a term being 0.0 when its radius
\* is 0; cleared of the divisions, which is exact where the f64 quotients
\* and squares stay far from the rounding of 1.0 (all radii below 8)
select_ellipse(selection, center_x, center_y, end_x, end_y, mode) ==
    LET dx == Abs(end_x - center_x)
        dy == Abs(end_y - center_y)
        inside(rel_x, rel_y) ==
            IF dx > 0 /\ dy > 0
            THEN rel_x * rel_x * dy * dy + rel_y * rel_y * dx * dx <= dx * dx * dy * dy
            ELSE IF dx > 0 THEN rel_x * rel_x <= dx * dx
            ELSE rel_y * rel_y <= dy * dy
        temp_mask == [i \in 1..Len(selection.mask) |->
                         inside(CellX(i, selection.width) - center_x,
                                CellY(i, selection.width) - center_y)]
    IN  IF dx = 0 /\ dy = 0 THEN selection
        ELSE update_bounds(apply_selection_mode(selection, temp_mask, mode))

\* f64::round of the quotient n / d: the nearest integer, halves away from 0
RoundDiv(n, d) ==
    LET num == IF d < 0 THEN -n ELSE n
        den == Abs(d)
        q == (2 * Abs(num) + den) \div (2 * den)
    IN  IF num < 0 THEN -q ELSE q

\* intersections that also counts an edge at the scanline of its far end
intersections_ClosedEdges(points, y) ==
    LET n == Len(points)
        crosses(i) == LET y1 == points[i][2]
                          y2 == points[(i % n) + 1][2]
                      IN  (y1 <= y /\ y <= y2 /\ y1 # y2) \/ (y2 <= y /\ y <= y1 /\ y1 # y2)
        at(i) == LET p1 == points[i]
                     p2 == points[(i % n) + 1]
                 IN  RoundDiv(p1[1] * (p2[2] - p1[2]) + (y - p1[2]) * (p2[1] - p1[1]),
                              p2[2] - p1[2])
        edges == SelectSeq([i \in 1..n |-> i], crosses)
    IN  SortSeq([k \in 1..Len(edges) |-> at(edges[k])], LAMBDA a, b : a < b)

\* the sorted crossings of scanline y with the edges of the polygon
intersections(points, y) ==
    LET n == Len(points)
        crosses(i) == LET y1 == points[i][2]
                          y2 == points[(i % n) + 1][2]
                      IN  (y1 <= y /\ y < y2) \/ (y2 <= y /\ y < y1)
        at(i) == LET p1 == points[i]
                     p2 == points[(i % n) + 1]
                 IN  RoundDiv(p1[1] * (p2[2] - p1[2]) + (y - p1[2]) * (p2[1] - p1[1]),
                              p2[2] - p1[2])
        edges == SelectSeq([i \in 1..n |-> i], crosses)
    IN  SortSeq([k \in 1..Len(edges) |-> at(edges[k])], LAMBDA a, b : a < b)

select_lasso_add_point(selection, points, mode) ==
    LET width == selection.width
        spans(y) == LET xs == intersections(points, y)
                    IN  {<<Max(xs[2 * k - 1], 0), Min(xs[2 * k], width - 1)>> :
                            k \in 1..(Len(xs) \div 2)}
        temp_mask == [i \in 1..Len(selection.mask) |->
                         \E s \in spans(CellY(i, width)) :
                             CellX(i, width) \in s[1]..s[2]]
    IN  IF Len(points) < 3 THEN selection
        ELSE update_bounds(apply_selection_mode(selection, temp_mask, mode))

(***************************************************************************)
(* renderer/dirty_region.rs: Rect and DirtyRegion.  A Rect covers the      *)
(* columns x .. x + width - 1 and the rows y .. y + height - 1.            *)
(***************************************************************************)
Rect_new(x, y, width, height) == [x |-> x, y |-> y, width |-> width, height |-> height]

Rect_is_empty(rect) == rect.width <= 0 \/ rect.height <= 0

Rect_union(self, other) ==
    LET x == Min(self.x, other.x)
        y == Min(self.y, other.y)
        max_x == Max(self.x + self.width, other.x + other.width)
        max_y == Max(self.y + self.height, other.y + other.height)
    IN  [x |-> x, y |-> y, width |-> max_x - x, height |-> max_y - y]

\* i32 division, which truncates toward zero
TruncDiv(a, b) == IF a < 0 THEN -((-a) \div b) ELSE a \div b

DirtyRegion_new == [rects |-> <<>>]

add_rect(region, rect) ==
    IF ~Rect_is_empty(rect) THEN [region EXCEPT !.rects = Append(@, rect)]
    ELSE region

add_point(region, x, y, brush_size) ==
    LET half == TruncDiv(brush_size, 2)
    IN  add_rect(region, Rect_new(x - half, y - half, brush_size, brush_size))

add_line(region, x1, y1, x2, y2, brush_size) ==
    LET min_x == Min(x1, x2)
        min_y == Min(y1, y2)
        max_x == Max(x1, x2)
        max_y == Max(y1, y2)
        half == TruncDiv(brush_size, 2)
    IN  add_rect(region, Rect_new(min_x - half, min_y - half,
                                  (max_x - min_x) + brush_size,
                                  (max_y - min_y) + brush_size))

DirtyRegion_is_empty(region) == region.rects = <<>>

RECURSIVE union_all(_, _)
union_all(result, rects) ==
    IF rects = <<>> THEN result
    ELSE union_all(Rect_union(result, Head(rects)), Tail(rects))

get_bounds(region) ==
    IF region.rects = <<>> THEN None
    ELSE union_all(region.rects[1], Tail(region.rects))

DirtyRegion_clear(region) == [region EXCEPT !.rects = <<>>]

intersects(self, other) ==
    ~( \/ self.x + self.width <= other.x
       \/ other.x + other.width <= self.x
       \/ self.y + self.height <= other.y
       \/ other.y + other.height <= self.y )

\* merge_into that leaves the first intersecting rectangle as it was
merge_into_KeepsExisting(optimized, rect) ==
    [merged |-> \E i \in 1..Len(optimized) : intersects(rect, optimized[i]),
     optimized |-> optimized]

\* the inner loop of optimize: the first rectangle of `optimized` that
\* `rect` intersects becomes its union with `rect`
merge_into(optimized, rect) ==
    LET hits == {i \in 1..Len(optimized) : intersects(rect, optimized[i])}
    IN  IF hits = {} THEN [merged |-> FALSE, optimized |-> optimized]
        ELSE [merged |-> TRUE,
              optimized |-> [optimized EXCEPT ![SetMin(hits)] = Rect_union(@, rect)]]

RECURSIVE optimize_loop(_, _)
optimize_loop(optimized, rects) ==
    IF rects = <<>> THEN optimized
    ELSE LET m == merge_into(optimized, Head(rects))
         IN  optimize_loop(IF m.merged THEN m.optimized
                           ELSE Append(optimized, Head(rects)),
                           Tail(rects))

optimize(region) ==
    IF Len(region.rects) <= 1 THEN region
    ELSE [region EXCEPT !.rects = optimize_loop(<<>>, region.rects)]

(***************************************************************************)
(* renderer/pixel_renderer.rs: PixelRenderer.  `pixels` is the RGBA store, *)
(* four bytes per cell, rows first.                                        *)
(***************************************************************************)
White(n) == [k \in 1..n |-> 255]

\* the cell index (from 0) and the channel (from 1) of byte k (from 1)
ByteCell(k) == (k - 1) \div 4
ByteChannel(k) == ((k - 1) % 4) + 1

\* vec![255u8; (width * height * 4) as usize]: a negative product is cast to
\* a length no allocation can have
PixelRenderer_new(width, height) ==
    IF width * height * 4 < 0 THEN Panic
    ELSE [tag |-> "Ok",
          val |-> [pixels |-> White(width * height * 4), width |-> width,
                   height |-> height, dirty_region |-> DirtyRegion_new]]

\* surfaces::wrap_pixels gives no surface for an image without cells
wrap_pixels(self) == self.width > 0 /\ self.height > 0

\* the paint takes the colour's channels and `opacity` as its alpha; it is
\* not anti-aliased, so a covered cell becomes the source over the store:
\* the colour itself at opacity 1, the store at opacity 0
Painted(self, covered, color, opacity) ==
    IF opacity = 0 THEN self.pixels
    ELSE [k \in 1..Len(self.pixels) |->
            IF ByteCell(k) \in covered
            THEN (IF ByteChannel(k) = 4 THEN 255 ELSE color[ByteChannel(k)])
            ELSE self.pixels[k]]

\* `covered` is the set of cells the rasteriser of the stroked path covers
PixelRenderer_draw_stroke(self, points, brush_size, color, opacity, covered) ==
    IF points = <<>> THEN [res |-> Ok, self |-> self]
    ELSE IF ~wrap_pixels(self)
    THEN [res |-> Err("Failed to create surface"), self |-> self]
    ELSE LET first == points[1]
             last == points[Len(points)]
         IN  [res |-> Ok,
              self |-> [self EXCEPT
                  !.pixels = Painted(self, covered, color, opacity),
                  !.dirty_region = add_line(@, first[1], first[2], last[1], last[2],
                                            brush_size)]]

\* the cells of the store inside a rectangle of non-negative extent
RectCells(self, rect) ==
    {y * self.width + x : x \in (0..(self.width - 1)) \cap (rect.x..(rect.x + rect.width - 1)),
                          y \in (0..(self.height - 1)) \cap (rect.y..(rect.y + rect.height - 1))}

PixelRenderer_fill_rect(self, rect, color, opacity) ==
    IF ~wrap_pixels(self)
    THEN [res |-> Err("Failed to create surface"), self |-> self]
    ELSE [res |-> Ok,
          self |-> [self EXCEPT
              !.pixels = Painted(self, RectCells(self, rect), color, opacity),
              !.dirty_region = add_rect(@, rect)]]

\* the loop over the rows 0 .. src_height - 1, written per byte of the result
PixelRenderer_render_viewport(self, viewport_x, viewport_y, viewport_width, viewport_height) ==
    LET src_x == Min(Max(viewport_x, 0), self.width)
        src_y == Min(Max(viewport_y, 0), self.height)
        src_width == Min(viewport_width, self.width - src_x)
        src_height == Min(viewport_height, self.height - src_y)
        len == viewport_width * viewport_height * 4
        row_len == src_width * 4
        Copied(y) ==
            /\ ((src_y + y) * self.width + src_x) * 4 + row_len <= Len(self.pixels)
            /\ (y * viewport_width) * 4 + row_len <= len
    IN  IF len < 0 THEN Panic
        ELSE [tag |-> "Ok",
              val |-> [k \in 1..len |->
                LET y == ByteCell(k) \div viewport_width
                    i == ByteCell(k) % viewport_width
                IN  IF y < src_height /\ i < src_width /\ Copied(y)
                    THEN self.pixels[((src_y + y) * self.width + src_x + i) * 4
                                     + ByteChannel(k)]
                    ELSE 255]]

get_image_data(self) == self.pixels

PixelRenderer_clear(self, color) ==
    [self EXCEPT
        !.pixels = [k \in 1..Len(@) |->
                       IF ByteCell(k) < Len(@) \div 4 THEN color[ByteChannel(k)] ELSE @[k]],
        !.dirty_region = add_rect(@, Rect_new(0, 0, self.width, self.height))]

PixelRenderer_get_dirty_bounds(self) == get_bounds(self.dirty_region)

PixelRenderer_clear_dirty_region(self) ==
    [self EXCEPT !.dirty_region = DirtyRegion_clear(@)]

\* resize that adds the new area to the rectangles already accumulated
PixelRenderer_resize_KeepsDirty(self, width, height) ==
    IF width * height * 4 < 0
    THEN [res |-> Panic, self |-> [self EXCEPT !.width = width, !.height = height]]
    ELSE [res |-> Ok,
          self |-> [pixels |-> White(width * height * 4), width |-> width,
                    height |-> height,
                    dirty_region |-> add_rect(self.dirty_region,
                                              Rect_new(0, 0, width, height))]]

\* the fields are assigned before the new store is allocated
PixelRenderer_resize(self, width, height) ==
    IF width * height * 4 < 0
    THEN [res |-> Panic, self |-> [self EXCEPT !.width = width, !.height = height]]
    ELSE [res |-> Ok,
          self |-> [pixels |-> White(width * height * 4), width |-> width,
                    height |-> height,
                    dirty_region |-> add_rect(DirtyRegion_new,
                                              Rect_new(0, 0, width, height))]]

(***************************************************************************)
(* commands/rendering.rs: the renderer commands.  A command c is a record  *)
(* of its name and arguments; RenderExec gives its result and the renderer *)
(* it leaves, run with the renderer mutex held.                            *)
(***************************************************************************)
parse_hex_color(hexstr) ==
    LET bytes == Utf8Bytes(trim_start_matches(hexstr, "#"))
        Sliced(from, to) == /\ to <= Len(bytes)
                            /\ is_char_boundary(bytes, from)
                            /\ is_char_boundary(bytes, to)
        r == from_str_radix_u8(SubSeq(bytes, 1, 2))
        g == from_str_radix_u8(SubSeq(bytes, 3, 4))
        b == from_str_radix_u8(SubSeq(bytes, 5, 6))
        a == IF Len(bytes) = 8 THEN from_str_radix_u8(SubSeq(bytes, 7, 8)) ELSE 255
    IN  IF ~Sliced(0, 2) THEN Panic
        ELSE IF r < 0 THEN Err("invalid digit found in string")
        ELSE IF ~Sliced(2, 4) THEN Panic
        ELSE IF g < 0 THEN Err("invalid digit found in string")
        ELSE IF ~Sliced(4, 6) THEN Panic
        ELSE IF b < 0 THEN Err("invalid digit found in string")
        ELSE IF Len(bytes) = 8 /\ ~Sliced(6, 8) THEN Panic
        ELSE IF a < 0 THEN Err("invalid digit found in string")
        ELSE [tag |-> "Ok", val |-> <<r, g, b, a>>]

InvalidColor == Err("Invalid color: invalid digit found in string")
NotInitialized == Err("Renderer not initialized")

Leaves(res, r) == [res |-> res, renderer |-> r]

draw_stroke(r, c) ==
    LET color == parse_hex_color(c.color)
        drawn == PixelRenderer_draw_stroke(r, c.points, c.brush_size, color.val,
                                           c.opacity, c.covered)
    IN  IF r = None THEN Leaves(NotInitialized, r)
        ELSE IF color.tag = "Panic" THEN Leaves(Panic, r)
        ELSE IF color.tag = "Err" THEN Leaves(InvalidColor, r)
        ELSE IF drawn.res.tag = "Err"
        THEN Leaves(Err("Failed to draw stroke: Failed to create surface"), r)
        ELSE Leaves(Ok, drawn.self)

fill_rect(r, c) ==
    LET rect == Rect_new(c.x, c.y, c.width, c.height)
        color == parse_hex_color(c.color)
        drawn == PixelRenderer_fill_rect(r, rect, color.val, c.opacity)
    IN  IF r = None THEN Leaves(NotInitialized, r)
        ELSE IF color.tag = "Panic" THEN Leaves(Panic, r)
        ELSE IF color.tag = "Err" THEN Leaves(InvalidColor, r)
        ELSE IF drawn.res.tag = "Err"
        THEN Leaves(Err("Failed to fill rect: Failed to create surface"), r)
        ELSE Leaves(Ok, drawn.self)

render_viewport(r, c) ==
    IF r = None THEN Leaves(NotInitialized, r)
    ELSE Leaves(PixelRenderer_render_viewport(r, c.viewport_x, c.viewport_y,
                                              c.viewport_width, c.viewport_height), r)

get_canvas_image(r, c) ==
    IF r = None THEN Leaves(NotInitialized, r)
    ELSE Leaves([tag |-> "Ok", val |-> get_image_data(r)], r)

clear_canvas(r, c) ==
    LET color == parse_hex_color(c.color)
    IN  IF r = None THEN Leaves(NotInitialized, r)
        ELSE IF color.tag = "Panic" THEN Leaves(Panic, r)
        ELSE IF color.tag = "Err" THEN Leaves(InvalidColor, r)
        ELSE Leaves(Ok, PixelRenderer_clear(r, color.val))

resize_canvas(r, c) ==
    LET resized == PixelRenderer_resize(r, c.width, c.height)
    IN  IF r = None THEN Leaves(NotInitialized, r)
        ELSE Leaves(resized.res, resized.self)

get_dirty_bounds(r, c) ==
    IF r = None THEN Leaves(NotInitialized, r)
    ELSE Leaves([tag |-> "Ok", val |-> PixelRenderer_get_dirty_bounds(r)], r)

clear_dirty_region(r, c) ==
    IF r = None THEN Leaves(NotInitialized, r)
    ELSE Leaves(Ok, PixelRenderer_clear_dirty_region(r))

RenderExec(r, c) ==
    CASE c.name = "draw_stroke" -> draw_stroke(r, c)
      [] c.name = "fill_rect" -> fill_rect(r, c)
      [] c.name = "render_viewport" -> render_viewport(r, c)
      [] c.name = "get_canvas_image" -> get_canvas_image(r, c)
      [] c.name = "clear_canvas" -> clear_canvas(r, c)
      [] c.name = "resize_canvas" -> resize_canvas(r, c)
      [] c.name = "get_dirty_bounds" -> get_dirty_bounds(r, c)
      [] c.name = "clear_dirty_region" -> clear_dirty_region(r, c)

\* a renderer command: init_renderer builds the renderer before it locks;
\* the others lock first, and a panic with the mutex held poisons it
RenderOutcome(r, pz, c) ==
    IF c.name = "init_renderer"
    THEN LET made == PixelRenderer_new(c.width, c.height)
         IN  IF made.tag = "Panic" \/ "renderer" \in pz
             THEN [res |-> Panic, renderer |-> r, poisoned |-> pz]
             ELSE [res |-> Ok, renderer |-> made.val, poisoned |-> pz]
    ELSE IF "renderer" \in pz
    THEN [res |-> Panic, renderer |-> r, poisoned |-> pz]
    ELSE LET o == RenderExec(r, c)
         IN  [res |-> o.res, renderer |-> o.renderer,
              poisoned |-> IF o.res.tag = "Panic" THEN pz \cup {"renderer"} ELSE pz]

(***************************************************************************)
(* main.rs: the host commands.  A command c is a record of its name and    *)
(* arguments; w is the data behind the three mutexes of AppState.  Each    *)
(* operator gives the value the command returns and the data as it leaves  *)
(* them, given that it holds the locks it takes.                           *)
(***************************************************************************)
World == [canvases |-> canvases, selections |-> selections, clipboard |-> clipboard]

Canvas(w, c) == w.canvases[c.project_id]
Sel(w, c) == w.selections[c.project_id]
WithCanvas(w, c, history) == [w EXCEPT !.canvases[c.project_id] = history]
WithSel(w, c, selection) == [w EXCEPT !.selections[c.project_id] = selection]
Returns(res, w) == [res |-> res, w |-> w]
CanvasNotFound == Err("Canvas not found")
SelectionNotFound == Err("Selection not found")

\* create_canvas that swaps the buffer in and keeps the stacks of the canvas
\* it replaces
create_canvas_KeepsHistory(w, c) ==
    IF Canvas(w, c) = None
    THEN Returns(Ok, WithCanvas(w, c, CanvasHistory_new(c.width, c.height)))
    ELSE Returns(Ok, WithCanvas(w, c,
             [Canvas(w, c) EXCEPT !.buffer = PixelBuffer_new(c.width, c.height)]))

create_canvas(w, c) ==
    Returns(Ok, WithCanvas(w, c, CanvasHistory_new(c.width, c.height)))

draw_pencil(w, c) ==
    LET history == Canvas(w, c)
        rgba == hex_to_rgba(c.color)
        drawn == pencil(history.buffer, c.x, c.y, rgba.val)
    IN  IF history = None THEN Returns(CanvasNotFound, w)
        ELSE IF rgba.tag # "Ok" THEN Returns(rgba, w)
        ELSE Returns(drawn.res, WithCanvas(w, c, [history EXCEPT !.buffer = drawn.buffer]))

draw_eraser(w, c) ==
    LET history == Canvas(w, c)
        drawn == eraser(history.buffer, c.x, c.y)
    IN  IF history = None THEN Returns(CanvasNotFound, w)
        ELSE Returns(drawn.res, WithCanvas(w, c, [history EXCEPT !.buffer = drawn.buffer]))

\* the shape commands: push_state (when asked) precedes the colour parsing
draw_line(w, c) ==
    LET history == Canvas(w, c)
        saved == IF c.save_history THEN push_state(history) ELSE history
        rgba == hex_to_rgba(c.color)
        drawn == line(saved.buffer, c.x0, c.y0, c.x1, c.y1, rgba.val)
    IN  IF history = None THEN Returns(CanvasNotFound, w)
        ELSE IF rgba.tag # "Ok" THEN Returns(rgba, WithCanvas(w, c, saved))
        ELSE Returns(drawn.res, WithCanvas(w, c, [saved EXCEPT !.buffer = drawn.buffer]))

draw_rectangle(w, c) ==
    LET history == Canvas(w, c)
        saved == IF c.save_history THEN push_state(history) ELSE history
        rgba == hex_to_rgba(c.color)
        drawn == rectangle(saved.buffer, c.x0, c.y0, c.x1, c.y1, rgba.val, c.filled)
    IN  IF history = None THEN Returns(CanvasNotFound, w)
        ELSE IF rgba.tag # "Ok" THEN Returns(rgba, WithCanvas(w, c, saved))
        ELSE Returns(drawn.res, WithCanvas(w, c, [saved EXCEPT !.buffer = drawn.buffer]))

draw_circle(w, c) ==
    LET history == Canvas(w, c)
        saved == IF c.save_history THEN push_state(history) ELSE history
        rgba == hex_to_rgba(c.color)
        drawn == circle(saved.buffer, c.x0, c.y0, c.x1, c.y1, rgba.val, c.filled)
    IN  IF history = None THEN Returns(CanvasNotFound, w)
        ELSE IF rgba.tag # "Ok" THEN Returns(rgba, WithCanvas(w, c, saved))
        ELSE Returns(drawn.res, WithCanvas(w, c, [saved EXCEPT !.buffer = drawn.buffer]))

\* draw_fill always saves
draw_fill(w, c) ==
    LET history == Canvas(w, c)
        saved == IF TRUE THEN push_state(history) ELSE history
        rgba == hex_to_rgba(c.color)
        drawn == fill(saved.buffer, c.x, c.y, rgba.val)
    IN  IF history = None THEN Returns(CanvasNotFound, w)
        ELSE IF rgba.tag # "Ok" THEN Returns(rgba, WithCanvas(w, c, saved))
        ELSE Returns(drawn.res, WithCanvas(w, c, [saved EXCEPT !.buffer = drawn.buffer]))

replace_color(w, c) ==
    LET history == Canvas(w, c)
        target_rgba == hex_to_rgba(c.target_color)
        new_rgba == hex_to_rgba(c.color)
    IN  IF history = None THEN Returns(CanvasNotFound, w)
        ELSE IF target_rgba.tag # "Ok" THEN Returns(target_rgba, w)
        ELSE IF new_rgba.tag # "Ok" THEN Returns(new_rgba, w)
        ELSE Returns(Ok, WithCanvas(w, c,
                 [history EXCEPT !.buffer =
                     replace_all_color(@, target_rgba.val, new_rgba.val)]))

save_history_state(w, c) ==
    IF Canvas(w, c) = None THEN Returns(CanvasNotFound, w)
    ELSE Returns(Ok, WithCanvas(w, c, push_state(Canvas(w, c))))

undo_canvas(w, c) ==
    IF Canvas(w, c) = None THEN Returns(CanvasNotFound, w)
    ELSE LET r == undo(Canvas(w, c)) IN Returns(r.res, WithCanvas(w, c, r.history))

redo_canvas(w, c) ==
    IF Canvas(w, c) = None THEN Returns(CanvasNotFound, w)
    ELSE LET r == redo(Canvas(w, c)) IN Returns(r.res, WithCanvas(w, c, r.history))

cmd_can_undo(w, c) ==
    IF Canvas(w, c) = None THEN Returns(CanvasNotFound, w)
    ELSE Returns([tag |-> "Ok", val |-> can_undo(Canvas(w, c))], w)

cmd_can_redo(w, c) ==
    IF Canvas(w, c) = None THEN Returns(CanvasNotFound, w)
    ELSE Returns([tag |-> "Ok", val |-> can_redo(Canvas(w, c))], w)

create_selection(w, c) ==
    Returns(Ok, WithSel(w, c, Selection_new(c.width, c.height)))

\* Ok(selection.clone())
OkSelection(selection) == [tag |-> "Ok", val |-> selection]

cmd_select_all(w, c) ==
    IF Sel(w, c) = None THEN Returns(SelectionNotFound, w)
    ELSE LET r == select_all(Sel(w, c), c.overflow_checks)
         IN  IF r.res.tag # "Ok" THEN Returns(r.res, WithSel(w, c, r.selection))
             ELSE Returns(OkSelection(r.selection), WithSel(w, c, r.selection))

deselect(w, c) ==
    IF Sel(w, c) = None THEN Returns(SelectionNotFound, w)
    ELSE Returns(Ok, WithSel(w, c, clear(Sel(w, c))))

cmd_select_magic_wand(w, c) ==
    IF Canvas(w, c) = None THEN Returns(CanvasNotFound, w)
    ELSE IF Sel(w, c) = None THEN Returns(SelectionNotFound, w)
    ELSE LET r == select_magic_wand(Canvas(w, c).buffer, Sel(w, c),
                                    c.x, c.y, c.tolerance, c.mode)
         IN  IF r.res.tag # "Ok" THEN Returns(r.res, w)
             ELSE Returns(OkSelection(r.selection), WithSel(w, c, r.selection))

cmd_select_rectangle(w, c) ==
    IF Sel(w, c) = None THEN Returns(SelectionNotFound, w)
    ELSE LET s == select_rectangle(Sel(w, c), c.x0, c.y0, c.x1, c.y1, c.mode)
         IN  Returns(OkSelection(s), WithSel(w, c, s))

cmd_select_ellipse(w, c) ==
    IF Sel(w, c) = None THEN Returns(SelectionNotFound, w)
    ELSE LET s == select_ellipse(Sel(w, c), c.center_x, c.center_y,
                                 c.end_x, c.end_y, c.mode)
         IN  Returns(OkSelection(s), WithSel(w, c, s))

cmd_select_lasso(w, c) ==
    IF Sel(w, c) = None THEN Returns(SelectionNotFound, w)
    ELSE LET s == select_lasso_add_point(Sel(w, c), c.points, c.mode)
         IN  Returns(OkSelection(s), WithSel(w, c, s))

invert_selection(w, c) ==
    IF Sel(w, c) = None THEN Returns(SelectionNotFound, w)
    ELSE LET s == invert(Sel(w, c))
         IN  Returns(OkSelection(s), WithSel(w, c, s))

get_selection(w, c) ==
    IF Sel(w, c) = None THEN Returns(SelectionNotFound, w)
    ELSE Returns(OkSelection(Sel(w, c)), w)

copy_selection(w, c) ==
    IF Canvas(w, c) = None THEN Returns(CanvasNotFound, w)
    ELSE IF Sel(w, c) = None THEN Returns(SelectionNotFound, w)
    ELSE LET extracted == extract_selection(Canvas(w, c).buffer, Sel(w, c))
         IN  IF extracted # None
             THEN Returns(Ok, [w EXCEPT !.clipboard = extracted])
             ELSE Returns(Err("No selection to copy"), w)

cut_selection(w, c) ==
    IF Canvas(w, c) = None THEN Returns(CanvasNotFound, w)
    ELSE IF Sel(w, c) = None THEN Returns(SelectionNotFound, w)
    ELSE LET history == Canvas(w, c)
             extracted == extract_selection(history.buffer, Sel(w, c))
             saved == push_state(history)
         IN  IF extracted # None
             THEN Returns(Ok,
                     [WithCanvas(w, c, [saved EXCEPT !.buffer =
                                           delete_selection(@, Sel(w, c))])
                         EXCEPT !.clipboard = extracted])
             ELSE Returns(Err("No selection to cut"), w)

paste_selection(w, c) ==
    IF Canvas(w, c) = None THEN Returns(CanvasNotFound, w)
    ELSE IF w.clipboard = None THEN Returns(Err("Clipboard is empty"), w)
    ELSE LET saved == push_state(Canvas(w, c))
             pasted == paste_buffer(saved.buffer, w.clipboard.buffer, c.x, c.y)
         IN  Returns(pasted.res, WithCanvas(w, c, [saved EXCEPT !.buffer = pasted.buffer]))

delete_selected(w, c) ==
    IF Canvas(w, c) = None THEN Returns(CanvasNotFound, w)
    ELSE IF Sel(w, c) = None THEN Returns(SelectionNotFound, w)
    ELSE LET saved == push_state(Canvas(w, c))
         IN  Returns(Ok, WithCanvas(w, c, [saved EXCEPT !.buffer =
                                              delete_selection(@, Sel(w, c))]))

Exec(w, c) ==
    CASE c.name = "create_canvas" -> create_canvas(w, c)
      [] c.name = "draw_pencil" -> draw_pencil(w, c)
      [] c.name = "draw_eraser" -> draw_eraser(w, c)
      [] c.name = "draw_line" -> draw_line(w, c)
      [] c.name = "draw_rectangle" -> draw_rectangle(w, c)
      [] c.name = "draw_circle" -> draw_circle(w, c)
      [] c.name = "draw_fill" -> draw_fill(w, c)
      [] c.name = "replace_color" -> replace_color(w, c)
      [] c.name = "save_history_state" -> save_history_state(w, c)
      [] c.name = "undo_canvas" -> undo_canvas(w, c)
      [] c.name = "redo_canvas" -> redo_canvas(w, c)
      [] c.name = "can_undo" -> cmd_can_undo(w, c)
      [] c.name = "can_redo" -> cmd_can_redo(w, c)
      [] c.name = "create_selection" -> create_selection(w, c)
      [] c.name = "select_rectangle" -> cmd_select_rectangle(w, c)
      [] c.name = "select_ellipse" -> cmd_select_ellipse(w, c)
      [] c.name = "select_lasso" -> cmd_select_lasso(w, c)
      [] c.name = "select_all" -> cmd_select_all(w, c)
      [] c.name = "invert_selection" -> invert_selection(w, c)
      [] c.name = "get_selection" -> get_selection(w, c)
      [] c.name = "deselect" -> deselect(w, c)
      [] c.name = "select_magic_wand" -> cmd_select_magic_wand(w, c)
      [] c.name = "copy_selection" -> copy_selection(w, c)
      [] c.name = "cut_selection" -> cut_selection(w, c)
      [] c.name = "paste_selection" -> paste_selection(w, c)
      [] c.name = "delete_selected" -> delete_selected(w, c)

(***************************************************************************)
(* main.rs: the mutexes a command locks, in the order of its               *)
(* `state.X.lock().unwrap()` statements.  copy_selection and cut_selection *)
(* lock the clipboard only once extract_selection has returned Some.       *)
(***************************************************************************)
NoLock == "none"
Nobody == "nobody"

\* paste_selection locking the clipboard before the canvases
LockSeq_ClipboardFirst(c) ==
    CASE c.name \in {"create_selection", "select_rectangle", "select_ellipse",
                     "select_lasso", "select_all", "deselect", "invert_selection",
                     "get_selection"} -> <<"selections">>
      [] c.name \in {"select_magic_wand", "copy_selection", "cut_selection",
                     "delete_selected"} -> <<"canvases", "selections">>
      [] c.name = "paste_selection" -> <<"clipboard", "canvases">>
      [] OTHER -> <<"canvases">>

LockSeq(c) ==
    CASE c.name \in {"create_selection", "select_rectangle", "select_ellipse",
                     "select_lasso", "select_all", "deselect", "invert_selection",
                     "get_selection"} -> <<"selections">>
      [] c.name \in {"select_magic_wand", "copy_selection", "cut_selection",
                     "delete_selected"} -> <<"canvases", "selections">>
      [] c.name = "paste_selection" -> <<"canvases", "clipboard">>
      [] OTHER -> <<"canvases">>

NextLock(w, c, held) ==
    LET seq == LockSeq(c)
        todo == {i \in 1..Len(seq) : seq[i] \notin held}
    IN  IF todo # {} THEN seq[SetMin(todo)]
        ELSE IF /\ c.name \in {"copy_selection", "cut_selection"}
                /\ "clipboard" \notin held
                /\ Canvas(w, c) # None
                /\ Sel(w, c) # None
                /\ extract_selection(Canvas(w, c).buffer, Sel(w, c)) # None
        THEN "clipboard"
        ELSE NoLock

\* a command run with no other command in flight: `lock().unwrap()` on a
\* poisoned mutex panics, and a panic poisons every mutex the command holds
RECURSIVE Outcome(_, _, _, _)
Outcome(w, pz, c, held) ==
    LET l == NextLock(w, c, held)
        r == Exec(w, c)
    IN  IF l = NoLock
        THEN [res |-> r.res, w |-> r.w, ran |-> TRUE,
              poisoned |-> IF r.res.tag = "Panic" THEN pz \cup held ELSE pz]
        ELSE IF l \in pz
        THEN [res |-> Panic, w |-> w, ran |-> FALSE, poisoned |-> pz \cup held]
        ELSE Outcome(w, pz, c, held \cup {l})

(***************************************************************************)
(* Observers of the history laws, one per canvas, updated when a command   *)
(* completes:                                                              *)
(*   snap     buffer bytes at the latest push_state, while only buffer     *)
(*            mutations have followed it                                   *)
(*   undone   the snap that was pending when the last command, an undo,    *)
(*            ran                                                          *)
(*   armed    a push_state has run and no undo has succeeded since         *)
(*   pre_undo the history before the last command, when it was an undo     *)
(*            that succeeded                                               *)
(*   redo_of  the pre_undo that was pending when the last command, a redo, *)
(*            ran                                                          *)
(***************************************************************************)
NoMarks == [snap |-> None, undone |-> None, armed |-> FALSE,
            pre_undo |-> None, redo_of |-> None]

\* main.rs: the commands that reach a push_state call
CallsPushState(w, c) ==
    /\ Canvas(w, c) # None
    /\ \/ c.name \in {"save_history_state", "draw_fill"}
       \/ c.name \in {"draw_line", "draw_rectangle", "draw_circle"} /\ c.save_history
       \/ c.name = "delete_selected" /\ Sel(w, c) # None
       \/ c.name = "paste_selection" /\ w.clipboard # None
       \/ /\ c.name = "cut_selection"
          /\ Sel(w, c) # None
          /\ extract_selection(Canvas(w, c).buffer, Sel(w, c)) # None

HistoryCommands == {"undo_canvas", "redo_canvas", "create_canvas"}

Observe(m, w, c, o) ==
    LET pushes == CallsPushState(w, c)
    IN  IF ~o.ran \/ Canvas(w, c) = None \/ c.name \in {"can_undo", "can_redo"}
        THEN m
        ELSE [m EXCEPT ![c.project_id] =
          [snap |-> IF pushes THEN Canvas(w, c).buffer.data
                    ELSE IF c.name \in HistoryCommands THEN None
                    ELSE @.snap,
           undone |-> IF c.name = "undo_canvas" THEN @.snap ELSE None,
           armed |-> IF pushes THEN TRUE
                     ELSE IF c.name = "create_canvas" THEN FALSE
                     ELSE IF c.name = "undo_canvas" /\ o.res.tag = "Ok" THEN FALSE
                     ELSE @.armed,
           pre_undo |-> IF c.name = "undo_canvas" /\ o.res.tag = "Ok"
                        THEN Canvas(w, c) ELSE None,
           redo_of |-> IF c.name = "redo_canvas" THEN @.pre_undo ELSE None]]

(***************************************************************************)
(* The inputs of the commands.                                             *)
(***************************************************************************)
RedHex == <<"#", "F", "F", "0", "0", "0", "0">>
ShortHex == <<"f", "0", "0">>
NoDigitHex == <<"z", "z", "0", "0", "0", "0">>
SplitHex == <<"a", "é", "1", "2", "3">>
Colors == {RedHex, ShortHex, NoDigitHex, SplitHex}

Xs == 0..MaxDim          \* u32 columns; MaxDim is the first one out of bounds
SignedXs == -1..MaxDim   \* i32 columns

Cmd0(name) == [name |-> name, project_id |-> "p1"]

LineCmds(name) ==
    {[name |-> name, project_id |-> "p1", x0 |-> x0, y0 |-> 0, x1 |-> x1, y1 |-> 0,
      color |-> color, save_history |-> save, filled |-> filled] :
        x0 \in 0..1, x1 \in SignedXs, color \in Colors,
        save \in BOOLEAN, filled \in {FALSE}}

ShapeCmds(name) ==
    {[name |-> name, project_id |-> "p1", x0 |-> x0, y0 |-> 0, x1 |-> x1, y1 |-> 0,
      color |-> color, save_history |-> save, filled |-> filled] :
        x0 \in 0..1, x1 \in Xs, color \in Colors,
        save \in BOOLEAN, filled \in BOOLEAN}

PointCmds(name) ==
    {[name |-> name, project_id |-> "p1", x |-> x, y |-> 0, color |-> color] :
        x \in Xs, color \in Colors}

(***************************************************************************)
(* The host invoking one command at a time (Spec).                         *)
(***************************************************************************)
Idle == [state |-> "idle", cmd |-> None, held |-> {}, want |-> NoLock]

\* `ret` is what the caller got back; with `with_cmd` it also remembers the
\* command that was invoked
Invoked(c, with_cmd) ==
    /\ steps < MaxSteps
    /\ \A t \in Threads : pc[t].state = "idle"
    /\ \E o \in {Outcome(World, poisoned, c, {})} :
           /\ canvases' = o.w.canvases
           /\ selections' = o.w.selections
           /\ clipboard' = o.w.clipboard
           /\ poisoned' = o.poisoned
           /\ ret' = IF with_cmd THEN [name |-> c.name, res |-> o.res, cmd |-> c]
                                 ELSE [name |-> c.name, res |-> o.res]
           /\ marks' = Observe(marks, World, c, o)
    /\ before' = World
    /\ steps' = steps + 1
    /\ UNCHANGED <<renderer, owner, pc>>

Call(c) == Invoked(c, FALSE)

CallWithCmd(c) == Invoked(c, TRUE)

\* the host invoking one renderer command
RenderCall(c) ==
    /\ steps < MaxSteps
    /\ \A t \in Threads : pc[t].state = "idle"
    /\ \E o \in {RenderOutcome(renderer, poisoned, c)} :
           /\ renderer' = o.renderer
           /\ poisoned' = o.poisoned
           /\ ret' = [name |-> c.name, res |-> o.res, cmd |-> c]
    /\ before' = World
    /\ steps' = steps + 1
    /\ UNCHANGED <<canvases, selections, clipboard, marks, owner, pc>>

Call_create_canvas ==
    Call([name |-> "create_canvas", project_id |-> "p1", width |-> MaxDim, height |-> 1])

Call_draw_pencil == \E c \in PointCmds("draw_pencil") : Call(c)

Call_draw_eraser == \E x \in Xs : Call(Cmd0("draw_eraser") @@ [x |-> x, y |-> 0])

Call_draw_line == \E c \in LineCmds("draw_line") : Call(c)

Call_draw_rectangle == \E c \in ShapeCmds("draw_rectangle") : Call(c)

Call_draw_circle == \E c \in ShapeCmds("draw_circle") : Call(c)

Call_draw_fill == \E c \in PointCmds("draw_fill") : Call(c)

Call_replace_color ==
    \E t \in {RedHex, <<"0", "0", "0", "0", "0", "0">>}, n \in Colors :
        Call(Cmd0("replace_color") @@ [target_color |-> t, color |-> n])

Call_save_history_state == Call(Cmd0("save_history_state"))

Call_undo_canvas == Call(Cmd0("undo_canvas"))

Call_redo_canvas == Call(Cmd0("redo_canvas"))

Call_can_undo == Call(Cmd0("can_undo"))

Call_can_redo == Call(Cmd0("can_redo"))

\* a history after n calls of push_state
RECURSIVE Pushed(_, _)
Pushed(history, n) ==
    IF n = 0 THEN history
    ELSE CHOOSE h \in {push_state(prev) : prev \in {Pushed(history, n - 1)}} : TRUE

FreshWorld ==
    [canvases |-> [p \in ProjectIds |-> None],
     selections |-> [p \in ProjectIds |-> None],
     clipboard |-> None]

\* the registry is empty at start-up; the other two starting points are the
\* states create_canvas and then MAX_HISTORY_SIZE save_history_state calls
\* lead to
Starts ==
    LET blank == [FreshWorld EXCEPT !.canvases["p1"] = CanvasHistory_new(MaxDim, 1)]
        full(n) == [blank EXCEPT !.canvases["p1"] = Pushed(@, n)]
    IN  {[w |-> FreshWorld, before |-> FreshWorld,
          ret |-> [name |-> "main", res |-> Ok],
          marks |-> [p \in ProjectIds |-> NoMarks]],
         [w |-> blank, before |-> FreshWorld,
          ret |-> [name |-> "create_canvas", res |-> Ok],
          marks |-> [p \in ProjectIds |-> NoMarks]],
         [w |-> full(MAX_HISTORY_SIZE), before |-> full(MAX_HISTORY_SIZE - 1),
          ret |-> [name |-> "save_history_state", res |-> Ok],
          marks |-> [p \in ProjectIds |->
                        [NoMarks EXCEPT !.snap = blank.canvases[p].buffer.data,
                                        !.armed = TRUE]]]}

InitFrom(s) ==
    /\ canvases = s.w.canvases
    /\ selections = s.w.selections
    /\ clipboard = s.w.clipboard
    /\ renderer = None
    /\ poisoned = {}
    /\ owner = [l \in Locks |-> Nobody]
    /\ pc = [t \in Threads |-> Idle]
    /\ ret = s.ret
    /\ before = s.before
    /\ steps = 0
    /\ marks = s.marks

Init == \E s \in Starts : InitFrom(s)

Next ==
    \/ Call_create_canvas
    \/ Call_draw_pencil
    \/ Call_draw_eraser
    \/ Call_draw_line
    \/ Call_draw_rectangle
    \/ Call_draw_circle
    \/ Call_draw_fill
    \/ Call_replace_color
    \/ Call_save_history_state
    \/ Call_undo_canvas
    \/ Call_redo_canvas
    \/ Call_can_undo
    \/ Call_can_redo

Spec == Init /\ [][Next]_vars

(***************************************************************************)
(* history.rs used directly, as its tests do: one CanvasHistory on which   *)
(* push_state, undo, redo, clear_history and buffer.set_pixel interleave   *)
(* freely (CapSpec), far enough to fill the undo stack.                    *)
(***************************************************************************)
TheHistory == canvases["p1"]

OnHistory(name, res, history, count) ==
    /\ canvases' = [canvases EXCEPT !["p1"] = history]
    /\ ret' = [name |-> name, res |-> res]
    /\ steps' = steps + count
    /\ UNCHANGED <<selections, clipboard, renderer, poisoned, owner, pc, before, marks>>

History_push_state == OnHistory("push_state", Ok, push_state(TheHistory), 0)

History_undo ==
    LET r == undo(TheHistory) IN OnHistory("undo", r.res, r.history, 0)

History_redo ==
    LET r == redo(TheHistory) IN OnHistory("redo", r.res, r.history, 0)

History_clear_history == OnHistory("clear_history", Ok, clear_history(TheHistory), 0)

History_set_pixel ==
    /\ steps < MaxDraws
    /\ \E color \in {<<255, 0, 0, 255>>} :
          LET r == set_pixel(TheHistory.buffer, 0, 0, color)
          IN  OnHistory("set_pixel", r.res, [TheHistory EXCEPT !.buffer = r.buffer], 1)

HistoryStart ==
    [w |-> [FreshWorld EXCEPT !.canvases["p1"] = CanvasHistory_new(1, 1)],
     before |-> FreshWorld,
     ret |-> [name |-> "new", res |-> Ok],
     marks |-> [p \in ProjectIds |-> NoMarks]]

CapInit == InitFrom(HistoryStart)

CapNext ==
    \/ History_push_state
    \/ History_undo
    \/ History_redo
    \/ History_clear_history
    \/ History_set_pixel

CapSpec == CapInit /\ [][CapNext]_vars

(***************************************************************************)
(* history.rs, tests::test_history_limit: push_state followed by a write   *)
(* of the loop index, repeated past the cap; then undo until it fails      *)
(* (FifoSpec).  steps counts the pushes.                                   *)
(***************************************************************************)
MaxPushes == MAX_HISTORY_SIZE + ExtraPushes

Fifo_push ==
    /\ steps < MaxPushes
    /\ ret.name \in {"new", "push_state"}
    /\ LET r == set_pixel(push_state(TheHistory).buffer, 0, 0,
                          <<steps % 256, 0, 0, 255>>)
       IN  OnHistory("push_state", r.res,
                     [push_state(TheHistory) EXCEPT !.buffer = r.buffer], 1)

Fifo_undo ==
    /\ ret.res.tag = "Ok"
    /\ LET r == undo(TheHistory) IN OnHistory("undo", r.res, r.history, 0)

FifoInit == InitFrom(HistoryStart)

FifoNext == Fifo_push \/ Fifo_undo

FifoSpec == FifoInit /\ [][FifoNext]_vars

(***************************************************************************)
(* The host dispatching commands on several threads (ConcSpec): a command  *)
(* locks its mutexes one by one, blocking while another thread holds the   *)
(* one it wants, runs, and drops its guards when it returns or panics.     *)
(***************************************************************************)
ConcCmds ==
    {[name |-> "create_canvas", project_id |-> "p1", width |-> MaxDim, height |-> 1],
     [name |-> "create_selection", project_id |-> "p1", width |-> MaxDim, height |-> 1],
     [name |-> "select_magic_wand", project_id |-> "p1", x |-> 0, y |-> 0,
      tolerance |-> 0, mode |-> "Replace"],
     [name |-> "paste_selection", project_id |-> "p1", x |-> 1, y |-> 0]}
    \cup {Cmd0(n) : n \in {"deselect", "undo_canvas", "copy_selection",
                           "cut_selection", "delete_selected"}}
    \cup {[name |-> "select_all", project_id |-> "p1", overflow_checks |-> TRUE]}
    \cup {[name |-> "draw_pencil", project_id |-> "p1", x |-> 0, y |-> 0,
           color |-> color] : color \in {RedHex, SplitHex}}

Invoke(t) ==
    /\ steps < MaxCalls
    /\ pc[t].state = "idle"
    /\ \E c \in ConcCmds :
          pc' = [pc EXCEPT ![t] = [state |-> "running", cmd |-> c, held |-> {},
                                   want |-> NextLock(World, c, {})]]
    /\ steps' = steps + 1
    /\ UNCHANGED <<canvases, selections, clipboard, renderer, poisoned, owner, ret,
                   before, marks>>

\* the end of a command on thread t: its guards are dropped, and a panic
\* poisons the mutexes they guarded and returns nothing to the host
Finish(t, o) ==
    /\ canvases' = o.w.canvases
    /\ selections' = o.w.selections
    /\ clipboard' = o.w.clipboard
    /\ poisoned' = o.poisoned
    /\ owner' = [l \in Locks |-> IF owner[l] = t THEN Nobody ELSE owner[l]]
    /\ pc' = [pc EXCEPT ![t] = IF o.res.tag = "Panic"
                               THEN [Idle EXCEPT !.state = "panicked"] ELSE Idle]
    /\ ret' = [name |-> pc[t].cmd.name, res |-> o.res]
    /\ before' = World
    /\ marks' = Observe(marks, World, pc[t].cmd, o)
    /\ UNCHANGED <<renderer, steps>>

Acquire(t) ==
    /\ pc[t].state = "running"
    /\ pc[t].want # NoLock
    /\ owner[pc[t].want] = Nobody
    /\ IF pc[t].want \in poisoned
       THEN Finish(t, [res |-> Panic, w |-> World, ran |-> FALSE,
                       poisoned |-> poisoned \cup pc[t].held])
       ELSE /\ owner' = [owner EXCEPT ![pc[t].want] = t]
            /\ pc' = [pc EXCEPT ![t].held = @ \cup {pc[t].want},
                                ![t].want = NextLock(World, pc[t].cmd,
                                                     pc[t].held \cup {pc[t].want})]
            /\ UNCHANGED <<canvases, selections, clipboard, renderer, poisoned, ret,
                           before, steps, marks>>

Run(t) ==
    /\ pc[t].state = "running"
    /\ pc[t].want = NoLock
    /\ LET r == Exec(World, pc[t].cmd)
       IN  Finish(t, [res |-> r.res, w |-> r.w, ran |-> TRUE,
                      poisoned |-> IF r.res.tag = "Panic"
                                   THEN poisoned \cup pc[t].held ELSE poisoned])

\* start-up, or a canvas whose selection covers it (create_canvas,
\* create_selection, select_all)
ConcStarts ==
    {[w |-> FreshWorld, before |-> FreshWorld,
      ret |-> [name |-> "main", res |-> Ok],
      marks |-> [p \in ProjectIds |-> NoMarks]],
     [w |-> [FreshWorld EXCEPT
                !.canvases["p1"] = CanvasHistory_new(MaxDim, 1),
                !.selections["p1"] = select_all(Selection_new(MaxDim, 1), TRUE).selection],
      before |-> [FreshWorld EXCEPT
                !.canvases["p1"] = CanvasHistory_new(MaxDim, 1),
                !.selections["p1"] = Selection_new(MaxDim, 1)],
      ret |-> [name |-> "select_all", res |-> Ok],
      marks |-> [p \in ProjectIds |-> NoMarks]]}

ConcInit == \E s \in ConcStarts : InitFrom(s)

ConcNext == \E t \in Threads : Invoke(t) \/ Acquire(t) \/ Run(t)

ConcSpec == ConcInit /\ [][ConcNext]_vars

(***************************************************************************)
(* Properties of CanvasHistory.                                            *)
(***************************************************************************)
Histories == {canvases[p] : p \in {q \in ProjectIds : canvases[q] # None}}

\* C1: in every state reached by interleaving push_state, undo, redo,
\* clear_history and buffer writes, the undo stack holds at most
\* MAX_HISTORY_SIZE snapshots, also after a redo (which pushes unchecked).
C1_UndoCountWithinCap ==
    \A h \in Histories : undo_count(h) <= MAX_HISTORY_SIZE

\* a redo has just refilled the undo stack to the cap
C1_Witness ==
    /\ ret.name = "redo" /\ ret.res.tag = "Ok"
    /\ undo_count(TheHistory) = MAX_HISTORY_SIZE

\* C2: push_state, then buffer mutations, then undo: the buffer holds the
\* bytes it held when push_state was called.
C2_UndoRestoresPushedBuffer ==
    \A p \in ProjectIds :
        marks[p].undone # None => canvases[p].buffer.data = marks[p].undone

\* an undo that followed a push and a mutation, and changed the buffer
C2_Witness ==
    /\ ret.name = "undo_canvas" /\ ret.res.tag = "Ok"
    /\ marks["p1"].undone # None
    /\ before.canvases["p1"].buffer.data # canvases["p1"].buffer.data
    /\ before.canvases["p1"].buffer.data # marks["p1"].undone

\* C3: a redo that immediately follows a successful undo succeeds and puts
\* back the buffer, the undo stack and the redo stack of before the undo.
C3_RedoInvertsUndo ==
    \A p \in ProjectIds :
        (ret.name = "redo_canvas" /\ marks[p].redo_of # None)
            => (ret.res = Ok /\ canvases[p] = marks[p].redo_of)

\* such a redo, where the undo had changed the buffer and both stacks
C3_Witness ==
    /\ ret.name = "redo_canvas"
    /\ marks["p1"].redo_of # None
    /\ marks["p1"].redo_of.buffer.data # before.canvases["p1"].buffer.data
    /\ redo_count(before.canvases["p1"]) > 0
    /\ undo_count(canvases["p1"]) > 0

\* C4: once push_state has run, and until an undo succeeds, the redo stack
\* is empty: can_redo is false and redo fails with "Nothing to redo".
C4_PushStateEmptiesRedo ==
    \A p \in ProjectIds :
        (marks[p].armed /\ "canvases" \notin poisoned) =>
            /\ ~can_redo(canvases[p])
            /\ ret.name = "redo_canvas" => ret.res = Err("Nothing to redo")
            /\ ret.name = "can_redo" => ret.res = [tag |-> "Ok", val |-> FALSE]

\* a command that ran push_state on a history whose redo stack was not empty
C4_Witness ==
    /\ marks["p1"].armed
    /\ ret.name = "save_history_state"
    /\ redo_count(before.canvases["p1"]) > 0
    /\ redo_count(canvases["p1"]) = 0

\* C5: undo on an empty undo stack fails with "Nothing to undo", redo on an
\* empty redo stack with "Nothing to redo", both leaving the buffer and the
\* stacks as they were; can_undo and can_redo tell whether the call succeeds.
C5_EmptyStackFailures ==
    /\ \A p \in ProjectIds :
          (before.canvases[p] # None /\ "canvases" \notin poisoned) =>
              /\ ret.name = "undo_canvas" =>
                    IF undo_count(before.canvases[p]) = 0
                    THEN ret.res = Err("Nothing to undo") /\ World = before
                    ELSE ret.res = Ok
              /\ ret.name = "redo_canvas" =>
                    IF redo_count(before.canvases[p]) = 0
                    THEN ret.res = Err("Nothing to redo") /\ World = before
                    ELSE ret.res = Ok
              /\ ret.name = "can_undo" =>
                    ret.res = [tag |-> "Ok", val |-> undo(canvases[p]).res = Ok]
              /\ ret.name = "can_redo" =>
                    ret.res = [tag |-> "Ok", val |-> redo(canvases[p]).res = Ok]
    /\ \A h \in Histories :
          /\ can_undo(h) <=> undo(h).res = Ok
          /\ can_redo(h) <=> redo(h).res = Ok

\* an undo that failed while a drawn-on snapshot waits on the redo stack
C5_Witness ==
    /\ ret = [name |-> "undo_canvas", res |-> Err("Nothing to undo")]
    /\ can_redo(canvases["p1"])
    /\ \E i \in 1..(MaxDim * 4) : canvases["p1"].redo_stack[1][i] # 0

\* the snapshots test_history_limit pushes: the blank buffer, then the loop
\* indices
PushedSnapshot(j) == IF j = 0 THEN <<0, 0, 0, 0>> ELSE <<(j - 1) % 256, 0, 0, 255>>

\* C6: after MAX_HISTORY_SIZE + k pushes on a fresh history the undo stack
\* holds exactly MAX_HISTORY_SIZE snapshots, the most recently pushed ones in
\* push order; exactly MAX_HISTORY_SIZE undos then succeed, each restoring
\* the next newer-to-older snapshot, and the oldest k are never restored.
C6_FifoEviction ==
    steps >= MAX_HISTORY_SIZE =>
        LET h == TheHistory
            undone == redo_count(h)
            kept == [i \in 1..MAX_HISTORY_SIZE |->
                        PushedSnapshot(steps - MAX_HISTORY_SIZE + i - 1)]
        IN  /\ undo_count(h) + undone = MAX_HISTORY_SIZE
            /\ h.undo_stack = SubSeq(kept, 1, MAX_HISTORY_SIZE - undone)
            /\ undone > 0 => h.buffer.data = kept[MAX_HISTORY_SIZE - undone + 1]
            /\ ret.res # Ok => (ret.res = Err("Nothing to undo") /\ undone = MAX_HISTORY_SIZE)

\* more pushes than the cap, then undos until one failed
C6_Witness ==
    /\ steps > MAX_HISTORY_SIZE
    /\ ret = [name |-> "undo", res |-> Err("Nothing to undo")]
    /\ redo_count(TheHistory) = MAX_HISTORY_SIZE

\* C7: the undo stack and the redo stack together never hold more than
\* MAX_HISTORY_SIZE snapshots.
C7_SnapshotsWithinCap ==
    \A h \in Histories : undo_count(h) + redo_count(h) <= MAX_HISTORY_SIZE

\* the cap is met with snapshots on both stacks, after a buffer write
C7_Witness ==
    /\ undo_count(TheHistory) + redo_count(TheHistory) = MAX_HISTORY_SIZE
    /\ redo_count(TheHistory) > 1
    /\ undo_count(TheHistory) > 1
    /\ steps > 0

(***************************************************************************)
(* Properties of the tool commands.                                        *)
(***************************************************************************)
ToolCommands == {"draw_pencil", "draw_eraser", "draw_line", "draw_rectangle",
                 "draw_circle", "draw_fill", "replace_color"}

\* C10: a tool command that returns an error leaves the canvas buffer, the
\* undo stack and the redo stack as they were before the call.
C10_FailedToolHasNoEffect ==
    (ret.name \in ToolCommands /\ ret.res.tag = "Err") => canvases = before.canvases

(***************************************************************************)
(* Properties of the locking of AppState.                                  *)
(***************************************************************************)
LockRank(l) == CASE l = "canvases" -> 1 [] l = "selections" -> 2 [] l = "clipboard" -> 3

\* C8: a command that holds some of the shared locks only ever requests a
\* lock that comes later in the order canvases, selections, clipboard than
\* every lock it holds.
C8_LockOrder ==
    \A t \in Threads :
        pc[t].want # NoLock =>
            \A l \in pc[t].held : LockRank(l) < LockRank(pc[t].want)

\* a command holds canvases and selections and requests the clipboard while
\* another command holds nothing yet and requests canvases
C8_Witness ==
    \E t, u \in Threads :
        /\ pc[t].held = {"canvases", "selections"} /\ pc[t].want = "clipboard"
        /\ pc[u].state = "running" /\ pc[u].want = "canvases"

\* C9: with commands dispatched on several threads no deadlock is reachable
\* and every invoked command returns, success or error, with all its locks
\* released.  As a property of every reachable state: no command has ended
\* without returning a value, a thread with no command in flight holds no
\* lock, and while commands are in flight one of them can take its next step.
C9_EveryCommandReturns ==
    /\ \A t \in Threads : pc[t].state # "panicked"
    /\ \A t \in Threads : pc[t].state = "idle" => \A l \in Locks : owner[l] # t
    /\ (\E t \in Threads : pc[t].state = "running") =>
          \E t \in Threads :
              /\ pc[t].state = "running"
              /\ (pc[t].want = NoLock \/ owner[pc[t].want] = Nobody)

(***************************************************************************)
(* tools.rs, apply_selection_mode applied to every pair of masks of a      *)
(* MaxDim x 2 selection (MaskSpec).  before holds the existing mask a and  *)
(* the temporary mask b a selection tool hands over.                       *)
(***************************************************************************)
SelectionModes == {"Replace", "Add", "Subtract", "Intersect"}

Masks == [1..(MaxDim * 2) -> BOOLEAN]

TheSelection == selections["p1"]

MaskInit ==
    \E a \in Masks, b \in Masks :
        /\ canvases = FreshWorld.canvases
        /\ selections = [p \in ProjectIds |->
                            update_bounds([Selection_new(MaxDim, 2) EXCEPT !.mask = a])]
        /\ clipboard = None
        /\ renderer = None
        /\ poisoned = {}
        /\ owner = [l \in Locks |-> Nobody]
        /\ pc = [t \in Threads |-> Idle]
        /\ ret = [name |-> "new", res |-> Ok]
        /\ before = [a |-> a, b |-> b]
        /\ steps = 0
        /\ marks = [p \in ProjectIds |-> NoMarks]

Mask_apply_selection_mode ==
    /\ steps = 0
    /\ \E mode \in SelectionModes :
          /\ selections' = [selections EXCEPT
                               !["p1"] = apply_selection_mode(@, before.b, mode)]
          /\ ret' = [name |-> "apply_selection_mode", mode |-> mode, res |-> Ok]
    /\ steps' = 1
    /\ UNCHANGED <<canvases, clipboard, renderer, poisoned, owner, pc, before, marks>>

MaskNext == Mask_apply_selection_mode

MaskSpec == MaskInit /\ [][MaskNext]_vars

(***************************************************************************)
(* The host invoking the selection and clipboard commands of main.rs one   *)
(* at a time on a MaxDim x 2 canvas (SelSpec).  A selection may be created *)
(* with any dimensions, the canvas's or not.                               *)
(***************************************************************************)
SelDims == {<<MaxDim, 2>>, <<1, 1>>, <<0, 2>>, <<MaxDim, 0>>}

Triangle == << <<0, 0>>, <<MaxDim, 0>>, <<0, 2>> >>
Sliver == << <<1, -1>>, <<1, 2>>, <<MaxDim + 1, 1>> >>
TwoPoints == << <<0, 0>>, <<1, 1>> >>

SelCanvas == CanvasHistory_new(MaxDim, 2)

\* start-up followed by create_canvas, or by create_canvas, draw_pencil and
\* create_selection
SelStarts ==
    {[w |-> [FreshWorld EXCEPT !.canvases["p1"] = SelCanvas],
      before |-> FreshWorld,
      ret |-> [name |-> "create_canvas", res |-> Ok],
      marks |-> [p \in ProjectIds |-> NoMarks]],
     [w |-> [FreshWorld EXCEPT
                !.canvases["p1"] =
                    [SelCanvas EXCEPT !.buffer =
                        pencil(@, 0, 0, <<255, 0, 0, 255>>).buffer],
                !.selections["p1"] = Selection_new(MaxDim, 2)],
      before |-> [FreshWorld EXCEPT
                !.canvases["p1"] =
                    [SelCanvas EXCEPT !.buffer =
                        pencil(@, 0, 0, <<255, 0, 0, 255>>).buffer]],
      ret |-> [name |-> "create_selection", res |-> Ok],
      marks |-> [p \in ProjectIds |-> NoMarks]]}

Sel_create_selection ==
    \E d \in SelDims :
        Call([name |-> "create_selection", project_id |-> "p1",
              width |-> d[1], height |-> d[2]])

Sel_select_rectangle ==
    \E x0 \in 0..1, y0 \in 0..1, x1 \in Xs, y1 \in 0..1, mode \in SelectionModes :
        Call([name |-> "select_rectangle", project_id |-> "p1",
              x0 |-> x0, y0 |-> y0, x1 |-> x1, y1 |-> y1, mode |-> mode])

Sel_select_ellipse ==
    \E cx \in 0..1, cy \in 0..1, ex \in SignedXs, ey \in 0..2, mode \in SelectionModes :
        Call([name |-> "select_ellipse", project_id |-> "p1", center_x |-> cx,
              center_y |-> cy, end_x |-> ex, end_y |-> ey, mode |-> mode])

Sel_select_lasso ==
    \E points \in {Triangle, Sliver, TwoPoints}, mode \in SelectionModes :
        Call([name |-> "select_lasso", project_id |-> "p1",
              points |-> points, mode |-> mode])

Sel_select_magic_wand ==
    \E x \in Xs, y \in 0..1, tolerance \in {0, 255}, mode \in SelectionModes :
        Call([name |-> "select_magic_wand", project_id |-> "p1", x |-> x, y |-> y,
              tolerance |-> tolerance, mode |-> mode])

\* the build decides what `width - 1` does at width 0
Sel_select_all ==
    \E overflow_checks \in BOOLEAN :
        Call([name |-> "select_all", project_id |-> "p1",
              overflow_checks |-> overflow_checks])

Sel_deselect == Call(Cmd0("deselect"))

Sel_invert_selection == Call(Cmd0("invert_selection"))

Sel_get_selection == Call(Cmd0("get_selection"))

Sel_copy_selection == Call(Cmd0("copy_selection"))

Sel_cut_selection == Call(Cmd0("cut_selection"))

Sel_paste_selection ==
    \E x \in 0..1 :
        Call([name |-> "paste_selection", project_id |-> "p1", x |-> x, y |-> 0])

Sel_delete_selected == Call(Cmd0("delete_selected"))

SelInit == \E s \in SelStarts : InitFrom(s)

SelNext ==
    \/ Sel_create_selection
    \/ Sel_select_rectangle
    \/ Sel_select_ellipse
    \/ Sel_select_lasso
    \/ Sel_select_magic_wand
    \/ Sel_select_all
    \/ Sel_deselect
    \/ Sel_invert_selection
    \/ Sel_get_selection
    \/ Sel_copy_selection
    \/ Sel_cut_selection
    \/ Sel_paste_selection
    \/ Sel_delete_selected

SelSpec == SelInit /\ [][SelNext]_vars

(***************************************************************************)
(* Properties of the selection.                                            *)
(***************************************************************************)
\* the cells a mask sets, as mask indices
MaskSet(mask) == {i \in 1..Len(mask) : mask[i]}

\* C11: the mask apply_selection_mode leaves is the temporary mask under
\* Replace, the union of the two masks under Add, the existing mask without
\* the cells of the temporary one under Subtract and the cells common to
\* both under Intersect.
C11_SelectionAlgebra ==
    ret.name = "apply_selection_mode" =>
        LET A == MaskSet(before.a)
            B == MaskSet(before.b)
            R == MaskSet(TheSelection.mask)
        IN  /\ Len(TheSelection.mask) = Len(before.a)
            /\ ret.mode = "Replace" => R = B
            /\ ret.mode = "Add" => R = A \cup B
            /\ ret.mode = "Subtract" => R = A \ B
            /\ ret.mode = "Intersect" => R = A \cap B

\* a Subtract of two overlapping masks neither of which contains the other
C11_Witness ==
    /\ ret.name = "apply_selection_mode" /\ ret.mode = "Subtract"
    /\ MaskSet(before.a) \cap MaskSet(before.b) # {}
    /\ MaskSet(before.a) \ MaskSet(before.b) # {}
    /\ MaskSet(before.b) \ MaskSet(before.a) # {}
    /\ MaskSet(TheSelection.mask) # {}

\* the tight bounding box of the cells a selection's mask sets
TightBounds(selection) ==
    LET cells == SelectedCells(selection)
    IN  [min_x |-> SetMin({p[1] : p \in cells}), max_x |-> SetMax({p[1] : p \in cells}),
         min_y |-> SetMin({p[2] : p \in cells}), max_y |-> SetMax({p[2] : p \in cells})]

\* C12: whatever selection commands have run, the cached bounds of a
\* selection are None exactly when its mask sets no cell (is_empty tells
\* whether nothing is selected), and otherwise they are the tight bounding
\* box of the set cells.
C12_BoundsMatchMask ==
    \A p \in ProjectIds :
        selections[p] # None =>
            /\ is_empty(selections[p]) <=> MaskSet(selections[p].mask) = {}
            /\ ~is_empty(selections[p]) => selections[p].bounds = TightBounds(selections[p])

(***************************************************************************)
(* Properties of the clipboard commands.                                   *)
(***************************************************************************)
\* C15: copy_selection, cut_selection and delete_selected called while the
\* canvas's selection selects nothing, and paste_selection called while the
\* clipboard is empty, return an error and leave the canvas (buffer and
\* both history stacks) and the clipboard as they were.
C15_NothingToActOn ==
    \A p \in ProjectIds :
        (before.canvases[p] # None /\ poisoned = {}) =>
            /\ ( /\ ret.name \in {"copy_selection", "cut_selection", "delete_selected"}
                 /\ before.selections[p] # None
                 /\ MaskSet(before.selections[p].mask) = {}
                 /\ is_empty(before.selections[p]) )
               => (ret.res.tag = "Err" /\ canvases = before.canvases
                                       /\ clipboard = before.clipboard)
            /\ (ret.name = "paste_selection" /\ before.clipboard = None)
               => (ret.res = Err("Clipboard is empty") /\ canvases = before.canvases
                                                        /\ clipboard = before.clipboard)

(***************************************************************************)
(* The commands that take a colour (ColorSpec): a canvas and a renderer of *)
(* MaxDim x 1 cells, then MaxColorCalls commands (the step counter starts *)
(* MaxColorCalls short of MaxSteps), each colour command with every string *)
(* of ColorStrings.                                                        *)
(***************************************************************************)
GreenHex == <<"0", "0", "f", "f", "0", "0">>
AlphaHex == <<"#", "F", "F", "0", "0", "0", "0", "8", "0">>
SevenHex == <<"f", "f", "0", "0", "0", "0", "0">>
PlusHex == <<"+", "f", "+", "f", "+", "f">>
ColorStrings == {RedHex, GreenHex, AlphaHex, ShortHex, NoDigitHex, SplitHex, SevenHex,
                 PlusHex}

InitRendererCmd == [name |-> "init_renderer", width |-> MaxDim, height |-> 1]

ColorInit ==
    /\ canvases = [FreshWorld.canvases EXCEPT !["p1"] = CanvasHistory_new(MaxDim, 1)]
    /\ selections = FreshWorld.selections
    /\ clipboard = FreshWorld.clipboard
    /\ renderer = PixelRenderer_new(MaxDim, 1).val
    /\ poisoned = {}
    /\ owner = [l \in Locks |-> Nobody]
    /\ pc = [t \in Threads |-> Idle]
    /\ ret = [name |-> "init_renderer", res |-> Ok, cmd |-> InitRendererCmd]
    /\ before = [FreshWorld EXCEPT !.canvases["p1"] = CanvasHistory_new(MaxDim, 1)]
    /\ steps = MaxSteps - MaxColorCalls
    /\ marks = [p \in ProjectIds |-> NoMarks]

Color_draw_pencil ==
    \E c \in {Cmd0("draw_pencil") @@ [x |-> x, y |-> 0, color |-> color] :
                    x \in 0..1, color \in ColorStrings} : CallWithCmd(c)

Color_draw_fill ==
    \E c \in {Cmd0("draw_fill") @@ [x |-> 0, y |-> 0, color |-> color] :
                    color \in ColorStrings} : CallWithCmd(c)

ColorShapes(name) ==
    {Cmd0(name) @@ [x0 |-> 0, y0 |-> 0, x1 |-> 1, y1 |-> 0, color |-> color,
                    save_history |-> save, filled |-> FALSE] :
        color \in ColorStrings, save \in BOOLEAN}

Color_draw_line ==
    \E c \in ColorShapes("draw_line") : CallWithCmd(c)

Color_draw_rectangle ==
    \E c \in ColorShapes("draw_rectangle") : CallWithCmd(c)

Color_draw_circle ==
    \E c \in ColorShapes("draw_circle") : CallWithCmd(c)

\* one of the two colours is well formed
Color_replace_color ==
    \E c \in {Cmd0("replace_color") @@ [target_color |-> target, color |-> color] :
                    target \in ColorStrings, color \in {RedHex}}
                \cup {Cmd0("replace_color") @@ [target_color |-> target, color |-> color] :
                    target \in {RedHex}, color \in ColorStrings} : CallWithCmd(c)

Color_draw_eraser ==
    \E c \in {Cmd0("draw_eraser") @@ [x |-> 0, y |-> 0]} : CallWithCmd(c)

\* the cells the rasteriser may cover for the stroke (0,0) - (1,0)
Color_draw_stroke ==
    \E c \in {[name |-> "draw_stroke", points |-> << <<0, 0>>, <<1, 0>> >>,
                  brush_size |-> 1, color |-> color, opacity |-> opacity,
                  covered |-> covered] :
                    color \in ColorStrings, opacity \in {0, 1},
                    covered \in {{0}, {0, 1}}} : RenderCall(c)

Color_fill_rect ==
    \E c \in {[name |-> "fill_rect", x |-> 0, y |-> 0, width |-> width,
                  height |-> 1, color |-> color, opacity |-> opacity] :
                    color \in ColorStrings, opacity \in {0, 1},
                    width \in 1..MaxDim} : RenderCall(c)

Color_clear_canvas ==
    \E c \in {[name |-> "clear_canvas", color |-> color] : color \in ColorStrings} :
           RenderCall(c)

Color_get_canvas_image ==
    \E c \in {[name |-> "get_canvas_image"]} : RenderCall(c)

ColorNext ==
    \/ Color_draw_pencil
    \/ Color_draw_fill
    \/ Color_draw_line
    \/ Color_draw_rectangle
    \/ Color_draw_circle
    \/ Color_replace_color
    \/ Color_draw_eraser
    \/ Color_draw_stroke
    \/ Color_fill_rect
    \/ Color_clear_canvas
    \/ Color_get_canvas_image

ColorSpec == ColorInit /\ [][ColorNext]_vars

(***************************************************************************)
(* Properties of the colour arguments.                                     *)
(***************************************************************************)
\* `#RRGGBB` or `#RRGGBBAA`, the '#' optional
HexDigitsOf(hexstr) ==
    IF hexstr # <<>> /\ Head(hexstr) = "#" THEN Tail(hexstr) ELSE hexstr

WellFormedHex(hexstr) ==
    /\ Len(HexDigitsOf(hexstr)) \in {6, 8}
    /\ \A i \in 1..Len(HexDigitsOf(hexstr)) : IsHexDigit(HexDigitsOf(hexstr)[i])

HexPair(hexstr, n) ==
    16 * HexVal(HexDigitsOf(hexstr)[2 * n - 1]) + HexVal(HexDigitsOf(hexstr)[2 * n])

ExpectedRgba(hexstr) ==
    <<HexPair(hexstr, 1), HexPair(hexstr, 2), HexPair(hexstr, 3),
      IF Len(HexDigitsOf(hexstr)) = 8 THEN HexPair(hexstr, 4) ELSE 255>>

\* the colour strings of the command that returned last
ColorsOf(c) ==
    (IF "color" \in DOMAIN c THEN {c.color} ELSE {})
        \cup (IF "target_color" \in DOMAIN c THEN {c.target_color} ELSE {})

InvalidColorErrors ==
    {Err("Invalid hex color format"), Err("Invalid hex color"), InvalidColor}

\* C13: draw_pencil with a well-formed 6- or 8-digit colour string, on an
\* existing canvas and an in-bounds pixel, succeeds and leaves the pixel
\* [r, g, b, 255] for six digits and [r, g, b, a] for eight.
C13_SixAndEightDigitsAccepted ==
    ( /\ ret.name = "draw_pencil"
      /\ WellFormedHex(ret.cmd.color)
      /\ before.canvases["p1"] # None
      /\ poisoned = {} )
    => /\ ret.res = Ok
       /\ SubSeq(canvases["p1"].buffer.data, 4 * ret.cmd.x + 1, 4 * ret.cmd.x + 4)
              = ExpectedRgba(ret.cmd.color)

\* C14: no command aborts and no lock is poisoned, and a command given a
\* colour string that is not a well-formed 6- or 8-digit hex colour returns
\* an invalid-colour error.
C14_MalformedColorIsAnError ==
    /\ poisoned = {}
    /\ ret.res.tag # "Panic"
    /\ (\E color \in ColorsOf(ret.cmd) : ~WellFormedHex(color))
           => ret.res \in InvalidColorErrors

(***************************************************************************)
(* Flood fill on every buffer (FillSpec): a MaxDim x 2 buffer of the       *)
(* colours BufferColors, then MaxFills calls of fill with any seed, in or  *)
(* out of bounds, and any colour of FillColors.  `marks` keeps `ret` and   *)
(* `before` as the previous fill left them; `ret.writes` lists the cells   *)
(* of the fill's set_pixel calls.                                          *)
(***************************************************************************)
Red == <<255, 0, 0, 255>>
NearRed == <<255, 0, 0, 254>>
Blue == <<0, 0, 255, 255>>
BufferColors == {Red, NearRed}
FillColors == {Red, Blue}

FillCells == (0..(MaxDim - 1)) \X (0..1)

Painting(colors) ==
    [width |-> MaxDim, height |-> 2,
     data |-> [i \in 1..(MaxDim * 2 * 4) |->
                  colors[<<((i - 1) \div 4) % MaxDim, ((i - 1) \div 4) \div MaxDim>>]
                        [((i - 1) % 4) + 1]]]

FillInit ==
    \E colors \in [FillCells -> BufferColors] :
        InitFrom([w |-> [FreshWorld EXCEPT !.canvases["p1"] =
                            [CanvasHistory_new(MaxDim, 2) EXCEPT !.buffer = Painting(colors)]],
                  before |-> FreshWorld,
                  ret |-> [name |-> "create_canvas", res |-> Ok],
                  marks |-> [ret |-> [name |-> "main", res |-> Ok], before |-> FreshWorld]])

Fill_fill ==
    /\ steps < MaxFills
    /\ \E x \in 0..MaxDim, y \in 0..2, new_color \in FillColors :
        \E r \in {fill(canvases["p1"].buffer, x, y, new_color)} :
            /\ canvases' = [canvases EXCEPT !["p1"].buffer = r.buffer]
            /\ ret' = [name |-> "fill", res |-> r.res,
                       cmd |-> [x |-> x, y |-> y, new_color |-> new_color],
                       writes |-> r.writes]
    /\ before' = World
    /\ marks' = [ret |-> ret, before |-> before]
    /\ steps' = steps + 1
    /\ UNCHANGED <<selections, clipboard, renderer, poisoned, owner, pc>>

FillNext == Fill_fill

FillSpec == FillInit /\ [][FillNext]_vars

(***************************************************************************)
(* Properties of fill.                                                     *)
(***************************************************************************)
PixelAt(buffer, cell) ==
    SubSeq(buffer.data, (cell[2] * buffer.width + cell[1]) * 4 + 1,
                        (cell[2] * buffer.width + cell[1]) * 4 + 4)

CellsOf(buffer) == (0..(buffer.width - 1)) \X (0..(buffer.height - 1))

FourNeighbours(p, q) == Abs(p[1] - q[1]) + Abs(p[2] - q[2]) = 1

\* the cells joined to `cells` by a path of 4-neighbours of the colour
RECURSIVE Connected(_, _, _)
Connected(buffer, color, cells) ==
    LET more == {q \in CellsOf(buffer) \ cells :
                    /\ PixelAt(buffer, q) = color
                    /\ \E p \in cells : FourNeighbours(p, q)}
    IN  IF more = {} THEN cells ELSE Connected(buffer, color, cells \cup more)

SeedRegion(buffer, seed) == Connected(buffer, PixelAt(buffer, seed), {seed})

FilledBuffer == canvases["p1"].buffer
BufferBefore == before.canvases["p1"].buffer
Seed == <<ret.cmd.x, ret.cmd.y>>

\* C16: a fill whose seed already has the new colour returns Ok and leaves
\* the buffer as it was, and a fill repeated with the same arguments leaves
\* the buffer as the first one left it.
C16_FillIdempotent ==
    (ret.name = "fill" /\ Seed \in CellsOf(BufferBefore)) =>
        /\ PixelAt(BufferBefore, Seed) = ret.cmd.new_color
               => (ret.res = Ok /\ FilledBuffer = BufferBefore)
        /\ (marks.ret.name = "fill" /\ marks.ret.cmd = ret.cmd)
               => FilledBuffer = BufferBefore

\* a fill changed the buffer and the same fill, run again, has returned
C16_Witness ==
    /\ ret.name = "fill"
    /\ marks.ret.name = "fill"
    /\ marks.ret.cmd = ret.cmd
    /\ Seed \in CellsOf(BufferBefore)
    /\ marks.before.canvases["p1"].buffer # BufferBefore
    /\ PixelAt(BufferBefore, Seed) = ret.cmd.new_color
    /\ ret.res = Ok

\* C17: a fill from an in-bounds seed whose colour differs from new_color
\* returns Ok, sets exactly the cells 4-connected to the seed through cells
\* of the seed's exact colour, and leaves every other cell as it was.
C17_FillsSeedRegion ==
    ( /\ ret.name = "fill"
      /\ Seed \in CellsOf(BufferBefore)
      /\ PixelAt(BufferBefore, Seed) # ret.cmd.new_color )
    => /\ ret.res = Ok
       /\ \A cell \in CellsOf(BufferBefore) :
              PixelAt(FilledBuffer, cell) =
                  IF cell \in SeedRegion(BufferBefore, Seed) THEN ret.cmd.new_color
                  ELSE PixelAt(BufferBefore, cell)

\* a fill has painted the seed alone and left as they were a diagonal
\* neighbour of the seed's colour and a 4-neighbour of another colour
C17_Witness ==
    /\ ret.name = "fill"
    /\ ret.res = Ok
    /\ Seed \in CellsOf(BufferBefore)
    /\ PixelAt(BufferBefore, Seed) # ret.cmd.new_color
    /\ Cardinality(SeedRegion(BufferBefore, Seed)) = 1
    /\ \E cell \in CellsOf(BufferBefore) :
           /\ Abs(cell[1] - Seed[1]) = 1 /\ Abs(cell[2] - Seed[2]) = 1
           /\ PixelAt(BufferBefore, cell) = PixelAt(BufferBefore, Seed)
           /\ PixelAt(FilledBuffer, cell) = PixelAt(BufferBefore, cell)
    /\ \E cell \in CellsOf(BufferBefore) :
           /\ PixelAt(BufferBefore, cell) # PixelAt(BufferBefore, Seed)
           /\ FourNeighbours(cell, Seed)
    /\ FilledBuffer # BufferBefore

\* C27: fill returns for every buffer and seed, it writes no pixel twice,
\* and the number of its set_pixel calls is the number of cells of the
\* region it fills (none when the seed is out of bounds or already has the
\* new colour).
C27_FillWritesOnce ==
    ret.name = "fill" =>
        /\ \A i, j \in 1..Len(ret.writes) : ret.writes[i] = ret.writes[j] => i = j
        /\ {ret.writes[i] : i \in 1..Len(ret.writes)} =
               {cell \in CellsOf(BufferBefore) :
                   PixelAt(FilledBuffer, cell) # PixelAt(BufferBefore, cell)}
        /\ Len(ret.writes) =
               IF /\ Seed \in CellsOf(BufferBefore)
                  /\ PixelAt(BufferBefore, Seed) # ret.cmd.new_color
               THEN Cardinality(SeedRegion(BufferBefore, Seed))
               ELSE 0

\* a fill from a corner of a 2 x 2 block of one colour has returned: the
\* opposite corner was queued by both of its neighbours
C27_Witness ==
    /\ ret.name = "fill"
    /\ ret.res = Ok
    /\ Seed = <<0, 0>>
    /\ {<<0, 0>>, <<1, 0>>, <<0, 1>>, <<1, 1>>} \subseteq SeedRegion(BufferBefore, Seed)
    /\ Len(ret.writes) = Cardinality(SeedRegion(BufferBefore, Seed))
    /\ ret.writes[1] = Seed

(***************************************************************************)
(* The circle tool on a transparent square buffer of side 2 * MaxDim       *)
(* (ShapeSpec): one call of circle with any centre on or next to the       *)
(* buffer and any edge point, or one call of rectangle with any two        *)
(* corners on or next to the buffer.                                       *)
(***************************************************************************)
ShapeSide == 2 * MaxDim

ShapeInit ==
    InitFrom([w |-> [FreshWorld EXCEPT !.canvases["p1"] =
                        CanvasHistory_new(ShapeSide, ShapeSide)],
              before |-> FreshWorld,
              ret |-> [name |-> "create_canvas", res |-> Ok],
              marks |-> [p \in ProjectIds |-> NoMarks]])

Shape_circle ==
    /\ steps = 0
    /\ \E center_x \in -1..MaxDim, center_y \in -1..MaxDim,
          end_x \in 0..MaxDim, end_y \in 0..MaxDim, filled \in BOOLEAN :
        \E r \in {circle(canvases["p1"].buffer, center_x, center_y, end_x, end_y,
                         Red, filled)} :
            /\ canvases' = [canvases EXCEPT !["p1"].buffer = r.buffer]
            /\ ret' = [name |-> "circle", res |-> r.res,
                       cmd |-> [center_x |-> center_x, center_y |-> center_y,
                                end_x |-> end_x, end_y |-> end_y, filled |-> filled]]
    /\ before' = World
    /\ steps' = steps + 1
    /\ UNCHANGED <<selections, clipboard, renderer, poisoned, owner, pc, marks>>

Shape_rectangle ==
    /\ steps = 0
    /\ \E x0 \in 0..ShapeSide, y0 \in 0..(ShapeSide - 1),
          x1 \in 0..(ShapeSide - 1), y1 \in 0..ShapeSide, filled \in BOOLEAN :
        \E r \in {rectangle(canvases["p1"].buffer, x0, y0, x1, y1, Red, filled)} :
            /\ canvases' = [canvases EXCEPT !["p1"].buffer = r.buffer]
            /\ ret' = [name |-> "rectangle", res |-> r.res,
                       cmd |-> [x0 |-> x0, y0 |-> y0, x1 |-> x1, y1 |-> y1,
                                filled |-> filled]]
    /\ before' = World
    /\ steps' = steps + 1
    /\ UNCHANGED <<selections, clipboard, renderer, poisoned, owner, pc, marks>>

Shape_line ==
    /\ steps = 0
    /\ \E x0 \in -1..(ShapeSide + 1), y0 \in -1..ShapeSide,
          x1 \in -1..(ShapeSide + 1), y1 \in -1..ShapeSide :
        \E r \in {line(canvases["p1"].buffer, x0, y0, x1, y1, Red)} :
            /\ canvases' = [canvases EXCEPT !["p1"].buffer = r.buffer]
            /\ ret' = [name |-> "line", res |-> r.res, path |-> r.path,
                       cmd |-> [x0 |-> x0, y0 |-> y0, x1 |-> x1, y1 |-> y1]]
    /\ before' = World
    /\ steps' = steps + 1
    /\ UNCHANGED <<selections, clipboard, renderer, poisoned, owner, pc, marks>>

ShapeNext ==
    \/ Shape_circle
    \/ Shape_rectangle
    \/ Shape_line

ShapeSpec == ShapeInit /\ [][ShapeNext]_vars

(***************************************************************************)
(* Properties of the shape tools.                                          *)
(***************************************************************************)
\* the points of the midpoint circle of a radius around a centre, on the
\* unbounded plane
RECURSIVE MidpointCircle(_, _, _, _, _)
MidpointCircle(center_x, center_y, x, y, decision_over_2) ==
    IF y > x THEN {}
    ELSE {<<center_x + sx * a, center_y + sy * b>> :
              sx \in {-1, 1}, sy \in {-1, 1}, <<a, b>> \in {<<x, y>>, <<y, x>>}}
         \cup (IF decision_over_2 <= 0
               THEN MidpointCircle(center_x, center_y, x, y + 1,
                                   decision_over_2 + 2 * (y + 1) + 1)
               ELSE MidpointCircle(center_x, center_y, x - 1, y + 1,
                                   decision_over_2 + 2 * ((y + 1) - (x - 1)) + 1))

Radius(c) ==
    RoundSqrt((c.end_x - c.center_x) * (c.end_x - c.center_x)
              + (c.end_y - c.center_y) * (c.end_y - c.center_y))

\* C18: an outlined circle returns Ok and sets exactly the cells of the
\* buffer that are points of its midpoint circle, whichever of the points
\* fall outside the buffer.
C18_OutlineClipsPerPoint ==
    (ret.name = "circle" /\ ~ret.cmd.filled) =>
        /\ ret.res = Ok
        /\ \A cell \in CellsOf(FilledBuffer) :
               PixelAt(FilledBuffer, cell) =
                   IF /\ Radius(ret.cmd) > 0
                      /\ cell \in MidpointCircle(ret.cmd.center_x, ret.cmd.center_y,
                                                 Radius(ret.cmd), 0, 1 - Radius(ret.cmd))
                   THEN Red ELSE <<0, 0, 0, 0>>

(***************************************************************************)
(* The renderer commands (RenderSpec): from start-up, with no renderer,    *)
(* up to MaxSteps commands.                                                *)
(***************************************************************************)
RenderInit ==
    InitFrom([w |-> FreshWorld, before |-> FreshWorld,
              ret |-> [name |-> "main", res |-> Ok, cmd |-> [name |-> "main"]],
              marks |-> [p \in ProjectIds |-> NoMarks]])

Render_init_renderer ==
    \E c \in {[name |-> "init_renderer", width |-> width, height |-> height] :
                 width \in {-1, 0, MaxDim}, height \in 1..2} : RenderCall(c)

\* the cells the rasteriser may cover for a stroke from (0,0)
Render_draw_stroke ==
    \E c \in {[name |-> "draw_stroke", points |-> points, brush_size |-> brush_size,
               color |-> RedHex, opacity |-> 1, covered |-> covered] :
                 points \in {<<>>, << <<0, 0>> >>, << <<0, 0>>, <<1, 0>> >>},
                 brush_size \in 0..1, covered \in {{}, {0}}} : RenderCall(c)

Render_fill_rect ==
    \E c \in {[name |-> "fill_rect", x |-> x, y |-> 0, width |-> width, height |-> 1,
               color |-> RedHex, opacity |-> opacity] :
                 x \in -1..1, width \in 0..MaxDim, opacity \in {0, 1}} : RenderCall(c)

Render_render_viewport ==
    \E c \in {[name |-> "render_viewport", viewport_x |-> x, viewport_y |-> y,
               viewport_width |-> width, viewport_height |-> height, zoom |-> zoom] :
                 x \in -1..MaxDim, y \in -1..1, width \in 0..MaxDim, height \in 0..2,
                 zoom \in 1..2} : RenderCall(c)

Render_get_canvas_image ==
    \E c \in {[name |-> "get_canvas_image"]} : RenderCall(c)

Render_clear_canvas ==
    \E c \in {[name |-> "clear_canvas", color |-> color] : color \in {RedHex, AlphaHex}} :
        RenderCall(c)

Render_resize_canvas ==
    \E c \in {[name |-> "resize_canvas", width |-> width, height |-> 1] :
                 width \in {-1, 1, MaxDim}} : RenderCall(c)

Render_get_dirty_bounds ==
    \E c \in {[name |-> "get_dirty_bounds"]} : RenderCall(c)

Render_clear_dirty_region ==
    \E c \in {[name |-> "clear_dirty_region"]} : RenderCall(c)

RenderNext ==
    \/ Render_init_renderer
    \/ Render_draw_stroke
    \/ Render_fill_rect
    \/ Render_render_viewport
    \/ Render_get_canvas_image
    \/ Render_clear_canvas
    \/ Render_resize_canvas
    \/ Render_get_dirty_bounds
    \/ Render_clear_dirty_region

RenderSpec == RenderInit /\ [][RenderNext]_vars

(***************************************************************************)
(* Properties of the renderer.                                             *)
(***************************************************************************)
\* the store's pixel at a coordinate, opaque white outside the store
StorePixel(x, y) ==
    IF x \in 0..(renderer.width - 1) /\ y \in 0..(renderer.height - 1)
    THEN SubSeq(renderer.pixels, (y * renderer.width + x) * 4 + 1,
                                 (y * renderer.width + x) * 4 + 4)
    ELSE <<255, 255, 255, 255>>

\* C19: render_viewport on an initialised renderer returns w*h*4 bytes, the
\* cell (i, j) of the viewport holding the store's pixel at (x+i, y+j), or
\* opaque white when that coordinate is outside the store.
C19_ViewportShowsStore ==
    (ret.name = "render_viewport" /\ renderer # None /\ poisoned = {}) =>
        /\ ret.res.tag = "Ok"
        /\ Len(ret.res.val) = ret.cmd.viewport_width * ret.cmd.viewport_height * 4
        /\ \A i \in 0..(ret.cmd.viewport_width - 1), j \in 0..(ret.cmd.viewport_height - 1) :
               SubSeq(ret.res.val, (j * ret.cmd.viewport_width + i) * 4 + 1,
                                   (j * ret.cmd.viewport_width + i) * 4 + 4)
                   = StorePixel(ret.cmd.viewport_x + i, ret.cmd.viewport_y + j)

(***************************************************************************)
(* The dirty region of a renderer (DirtySpec): up to MaxSteps calls of     *)
(* add_rect, add_point, add_line and clear.  `marks` is the set of cells   *)
(* added since the last clear: the cells of each rectangle, each point and *)
(* segment endpoint, and the brush's square around each of them.           *)
(***************************************************************************)
DirtyInit ==
    /\ canvases = FreshWorld.canvases
    /\ selections = FreshWorld.selections
    /\ clipboard = FreshWorld.clipboard
    /\ renderer = PixelRenderer_new(MaxDim, 1).val
    /\ poisoned = {}
    /\ owner = [l \in Locks |-> Nobody]
    /\ pc = [t \in Threads |-> Idle]
    /\ ret = [name |-> "init_renderer", res |-> Ok]
    /\ before = FreshWorld
    /\ steps = 0
    /\ marks = {}

CellsIn(rect) ==
    (rect.x..(rect.x + rect.width - 1)) \X (rect.y..(rect.y + rect.height - 1))

BrushAt(x, y, brush_size) ==
    {<<x, y>>} \cup CellsIn(Rect_new(x - TruncDiv(brush_size, 2),
                                     y - TruncDiv(brush_size, 2), brush_size, brush_size))

Dirty_add_rect ==
    /\ steps < MaxSteps
    /\ \E x \in {-1, 1}, width \in 0..2, height \in 1..2 :
        /\ renderer' = [renderer EXCEPT !.dirty_region =
                            add_rect(@, Rect_new(x, 0, width, height))]
        /\ marks' = marks \cup CellsIn(Rect_new(x, 0, width, height))
    /\ ret' = [name |-> "add_rect", res |-> Ok]
    /\ steps' = steps + 1
    /\ UNCHANGED <<canvases, selections, clipboard, poisoned, owner, pc, before>>

Dirty_add_point ==
    /\ steps < MaxSteps
    /\ \E x \in {0, 2}, brush_size \in 0..3 :
        /\ renderer' = [renderer EXCEPT !.dirty_region = add_point(@, x, 1, brush_size)]
        /\ marks' = marks \cup BrushAt(x, 1, brush_size)
    /\ ret' = [name |-> "add_point", res |-> Ok]
    /\ steps' = steps + 1
    /\ UNCHANGED <<canvases, selections, clipboard, poisoned, owner, pc, before>>

Dirty_add_line ==
    /\ steps < MaxSteps
    /\ \E to \in {<<2, 0>>, <<1, 1>>, <<-1, 2>>}, brush_size \in 0..2 :
        /\ renderer' = [renderer EXCEPT !.dirty_region =
                            add_line(@, 0, 0, to[1], to[2], brush_size)]
        /\ marks' = marks \cup BrushAt(0, 0, brush_size)
                          \cup BrushAt(to[1], to[2], brush_size)
    /\ ret' = [name |-> "add_line", res |-> Ok]
    /\ steps' = steps + 1
    /\ UNCHANGED <<canvases, selections, clipboard, poisoned, owner, pc, before>>

Dirty_clear ==
    /\ steps < MaxSteps
    /\ renderer' = [renderer EXCEPT !.dirty_region = DirtyRegion_clear(@)]
    /\ marks' = {}
    /\ ret' = [name |-> "clear", res |-> Ok]
    /\ steps' = steps + 1
    /\ UNCHANGED <<canvases, selections, clipboard, poisoned, owner, pc, before>>

DirtyNext ==
    \/ Dirty_add_rect
    \/ Dirty_add_point
    \/ Dirty_add_line
    \/ Dirty_clear

DirtySpec == DirtyInit /\ [][DirtyNext]_vars

(***************************************************************************)
(* Properties of the dirty region.                                         *)
(***************************************************************************)
\* the least rectangle holding a non-empty set of cells
Covering(cells) ==
    LET xs == {c[1] : c \in cells}
        ys == {c[2] : c \in cells}
    IN  Rect_new(SetMin(xs), SetMin(ys),
                 SetMax(xs) - SetMin(xs) + 1, SetMax(ys) - SetMin(ys) + 1)

\* C20: get_bounds is None exactly when no cell was added since the last
\* clear, and otherwise the least rectangle holding every added cell.
C20_BoundsCoverWhatWasAdded ==
    get_bounds(renderer.dirty_region) = IF marks = {} THEN None ELSE Covering(marks)

(***************************************************************************)
(* DirtyRegion::optimize on every list of rectangles (OptSpec): a region   *)
(* of up to MaxRects rectangles of DirtyRects, as add_rect leaves them,    *)
(* then one optimize.  `before` keeps the rectangles optimize was given.   *)
(***************************************************************************)
DirtyRects ==
    {Rect_new(0, 0, 1, 1), Rect_new(1, 0, 1, 1), Rect_new(0, 0, 2, 2),
     Rect_new(1, 1, 2, 2), Rect_new(3, 3, 1, 1), Rect_new(2, 0, 1, 3)}

RECURSIVE AddedRects(_)
AddedRects(n) ==
    IF n = 0 THEN {DirtyRegion_new}
    ELSE AddedRects(n - 1)
             \cup {add_rect(region, rect) : region \in AddedRects(n - 1), rect \in DirtyRects}

OptInit ==
    /\ canvases = FreshWorld.canvases
    /\ selections = FreshWorld.selections
    /\ clipboard = FreshWorld.clipboard
    /\ \E region \in AddedRects(MaxRects) :
           renderer = [PixelRenderer_new(MaxDim, 1).val EXCEPT !.dirty_region = region]
    /\ poisoned = {}
    /\ owner = [l \in Locks |-> Nobody]
    /\ pc = [t \in Threads |-> Idle]
    /\ ret = [name |-> "add_rect", res |-> Ok]
    /\ before = FreshWorld
    /\ steps = 0
    /\ marks = {}

Opt_optimize ==
    /\ steps = 0
    /\ renderer' = [renderer EXCEPT !.dirty_region = optimize(@)]
    /\ before' = renderer.dirty_region
    /\ ret' = [name |-> "optimize", res |-> Ok]
    /\ steps' = steps + 1
    /\ UNCHANGED <<canvases, selections, clipboard, poisoned, owner, pc, marks>>

OptNext == Opt_optimize

OptSpec == OptInit /\ [][OptNext]_vars

(***************************************************************************)
(* Properties of optimize.                                                 *)
(***************************************************************************)
Holds(outer, inner) ==
    /\ outer.x <= inner.x
    /\ outer.y <= inner.y
    /\ inner.x + inner.width <= outer.x + outer.width
    /\ inner.y + inner.height <= outer.y + outer.height

\* C21: optimize leaves get_bounds as it was, every rectangle it was given
\* lies inside one of the rectangles it leaves, and it leaves no more
\* rectangles than it was given.
C21_OptimizeKeepsExtent ==
    ret.name = "optimize" =>
        /\ get_bounds(renderer.dirty_region) = get_bounds(before)
        /\ \A i \in 1..Len(before.rects) :
               \E j \in 1..Len(renderer.dirty_region.rects) :
                   Holds(renderer.dirty_region.rects[j], before.rects[i])
        /\ Len(renderer.dirty_region.rects) <= Len(before.rects)

\* optimize was given three rectangles and merged one of them into another,
\* which grew
C21_Witness ==
    /\ ret.name = "optimize"
    /\ Len(before.rects) = 3
    /\ Len(renderer.dirty_region.rects) = 2
    /\ \E j \in 1..2 : \A i \in 1..3 : renderer.dirty_region.rects[j] # before.rects[i]

(***************************************************************************)
(* Rectangular selections (PickSpec): a fresh square selection of side     *)
(* 2 * MaxDim, then MaxSelects calls of select_rectangle with corners in   *)
(* any order, one of them past the extent, in every mode.                  *)
(***************************************************************************)
Corners == {<<0, 0>>, <<1, 1>>, <<2, 2>>, <<ShapeSide, 1>>}

PickInit ==
    InitFrom([w |-> [FreshWorld EXCEPT !.selections["p1"] =
                        Selection_new(ShapeSide, ShapeSide)],
              before |-> FreshWorld,
              ret |-> [name |-> "create_selection", res |-> Ok],
              marks |-> [p \in ProjectIds |-> NoMarks]])

Pick_select_rectangle ==
    /\ steps < MaxSelects
    /\ \E from \in Corners, to \in Corners, mode \in SelectionModes :
        /\ selections' = [selections EXCEPT !["p1"] =
               select_rectangle(@, from[1], from[2], to[1], to[2], mode)]
        /\ ret' = [name |-> "select_rectangle", res |-> Ok,
                   cmd |-> [x0 |-> from[1], y0 |-> from[2], x1 |-> to[1], y1 |-> to[2],
                            mode |-> mode]]
    /\ before' = World
    /\ steps' = steps + 1
    /\ UNCHANGED <<canvases, clipboard, renderer, poisoned, owner, pc, marks>>

PickNext == Pick_select_rectangle

PickSpec == PickInit /\ [][PickNext]_vars

(***************************************************************************)
(* Properties of select_rectangle.                                         *)
(***************************************************************************)
\* the cells of the selection's extent inside the box two corners span
BoxCells(selection, c) ==
    {p \in (0..(selection.width - 1)) \X (0..(selection.height - 1)) :
        /\ (c.x0 <= p[1] /\ p[1] <= c.x1) \/ (c.x1 <= p[1] /\ p[1] <= c.x0)
        /\ (c.y0 <= p[2] /\ p[2] <= c.y1) \/ (c.y1 <= p[2] /\ p[2] <= c.y0)}

\* C22: select_rectangle leaves the cells of the inclusive box of its two
\* corners, clipped to the selection's extent, combined with the cells that
\* were selected under its mode; Replace (0,0)-(1,1) then Add (1,1)-(2,2)
\* leaves seven cells.
C22_RectangleShape ==
    ret.name = "select_rectangle" =>
        LET A == SelectedCells(before.selections["p1"])
            B == BoxCells(TheSelection, ret.cmd)
            R == SelectedCells(TheSelection)
        IN  /\ ret.cmd.mode = "Replace" => R = B
            /\ ret.cmd.mode = "Add" => R = A \cup B
            /\ ret.cmd.mode = "Subtract" => R = A \ B
            /\ ret.cmd.mode = "Intersect" => R = A \cap B
            /\ ( /\ ret.cmd = [x0 |-> 1, y0 |-> 1, x1 |-> 2, y1 |-> 2, mode |-> "Add"]
                 /\ A = {0, 1} \X {0, 1} )
               => Cardinality(R) = 7

\* Replace (0,0)-(1,1) was followed by Add (1,1)-(2,2)
C22_Witness ==
    /\ ret.name = "select_rectangle"
    /\ ret.cmd = [x0 |-> 1, y0 |-> 1, x1 |-> 2, y1 |-> 2, mode |-> "Add"]
    /\ SelectedCells(before.selections["p1"]) = {0, 1} \X {0, 1}
    /\ Cardinality(SelectedCells(TheSelection)) = 7

\* the box two corners span, and its four border lines
InBox(cell, c) ==
    /\ (c.x0 <= cell[1] /\ cell[1] <= c.x1) \/ (c.x1 <= cell[1] /\ cell[1] <= c.x0)
    /\ (c.y0 <= cell[2] /\ cell[2] <= c.y1) \/ (c.y1 <= cell[2] /\ cell[2] <= c.y0)

OnBorder(cell, c) == cell[1] \in {c.x0, c.x1} \/ cell[2] \in {c.y0, c.y1}

\* C23: rectangle with both corners in bounds returns Ok; filled, it sets
\* every cell of the box its corners span; outlined, the cells of the box on
\* its four border lines; every other cell is as it was.
C23_RectangleCells ==
    ( /\ ret.name = "rectangle"
      /\ <<ret.cmd.x0, ret.cmd.y0>> \in CellsOf(BufferBefore)
      /\ <<ret.cmd.x1, ret.cmd.y1>> \in CellsOf(BufferBefore) )
    => /\ ret.res = Ok
       /\ \A cell \in CellsOf(BufferBefore) :
              PixelAt(FilledBuffer, cell) =
                  IF InBox(cell, ret.cmd) /\ (ret.cmd.filled \/ OnBorder(cell, ret.cmd))
                  THEN Red ELSE PixelAt(BufferBefore, cell)

\* an outlined rectangle given its far corner first, with a cell inside
\* that stayed as it was
C23_Witness ==
    /\ ret.name = "rectangle"
    /\ ret.res = Ok
    /\ ~ret.cmd.filled
    /\ ret.cmd.x0 >= ret.cmd.x1 + 2
    /\ ret.cmd.y0 >= ret.cmd.y1 + 2
    /\ <<ret.cmd.x0, ret.cmd.y0>> \in CellsOf(BufferBefore)
    /\ PixelAt(FilledBuffer, <<ret.cmd.x1 + 1, ret.cmd.y1 + 1>>) = <<0, 0, 0, 0>>
    /\ PixelAt(FilledBuffer, <<ret.cmd.x1, ret.cmd.y1 + 1>>) = Red

\* C28: line returns for every pair of endpoints, and the points it visits
\* start at (x0, y0), end at (x1, y1), number max(|x1 - x0|, |y1 - y0|) + 1,
\* each 8-adjacent to the one before; when all of them are in bounds the
\* call returns Ok, every one of them has the colour and every other cell is
\* as it was.
C28_LineVisitsPath ==
    ret.name = "line" =>
        LET path == ret.path
            n == Len(path)
        IN  /\ path[1] = <<ret.cmd.x0, ret.cmd.y0>>
            /\ path[n] = <<ret.cmd.x1, ret.cmd.y1>>
            /\ n = Max(Abs(ret.cmd.x1 - ret.cmd.x0), Abs(ret.cmd.y1 - ret.cmd.y0)) + 1
            /\ \A i \in 1..(n - 1) :
                   Max(Abs(path[i + 1][1] - path[i][1]),
                       Abs(path[i + 1][2] - path[i][2])) = 1
            /\ (\A i \in 1..n : path[i] \in CellsOf(BufferBefore)) =>
                   /\ ret.res = Ok
                   /\ \A cell \in CellsOf(BufferBefore) :
                          PixelAt(FilledBuffer, cell) =
                              IF \E i \in 1..n : path[i] = cell THEN Red
                              ELSE PixelAt(BufferBefore, cell)

(***************************************************************************)
(* The magic wand on every buffer (WandSpec): a MaxDim x 2 buffer of the   *)
(* colours WandColors under an empty selection of the same size, then one  *)
(* select_magic_wand in Replace mode with any seed, in or out of bounds.   *)
(***************************************************************************)
OffRed == <<254, 0, 0, 255>>
WandColors == {Red, NearRed, OffRed, Blue}

WandInit ==
    \E colors \in [FillCells -> WandColors] :
        InitFrom([w |-> [FreshWorld EXCEPT
                            !.canvases["p1"] =
                                [CanvasHistory_new(MaxDim, 2) EXCEPT
                                    !.buffer = Painting(colors)],
                            !.selections["p1"] = Selection_new(MaxDim, 2)],
                  before |-> FreshWorld,
                  ret |-> [name |-> "create_selection", res |-> Ok],
                  marks |-> [p \in ProjectIds |-> NoMarks]])

Wand_select_magic_wand ==
    /\ steps = 0
    /\ \E x \in 0..MaxDim, y \in 0..2, tolerance \in 0..1 :
        \E r \in {select_magic_wand(canvases["p1"].buffer, selections["p1"],
                                    x, y, tolerance, "Replace")} :
            /\ selections' = [selections EXCEPT !["p1"] = r.selection]
            /\ ret' = [name |-> "select_magic_wand", res |-> r.res,
                       cmd |-> [x |-> x, y |-> y, tolerance |-> tolerance]]
    /\ before' = World
    /\ steps' = steps + 1
    /\ UNCHANGED <<canvases, clipboard, renderer, poisoned, owner, pc, marks>>

WandNext == Wand_select_magic_wand

WandSpec == WandInit /\ [][WandNext]_vars

(***************************************************************************)
(* Properties of select_magic_wand.                                        *)
(***************************************************************************)
\* the mean of the absolute R, G and B differences is at most `tolerance`
WithinMean(c1, c2, tolerance) ==
    Abs(c1[1] - c2[1]) + Abs(c1[2] - c2[2]) + Abs(c1[3] - c2[3]) <= 3 * tolerance

\* the cells joined to `cells` by a path of 4-neighbours within the
\* tolerance of the colour
RECURSIVE Similar(_, _, _, _)
Similar(buffer, color, tolerance, cells) ==
    LET more == {q \in CellsOf(buffer) \ cells :
                    /\ WithinMean(PixelAt(buffer, q), color, tolerance)
                    /\ \E p \in cells : FourNeighbours(p, q)}
    IN  IF more = {} THEN cells ELSE Similar(buffer, color, tolerance, cells \cup more)

\* C29: select_magic_wand from an in-bounds seed selects exactly the cells
\* 4-connected to the seed through cells whose mean absolute R, G, B
\* difference from the seed's colour is at most the tolerance; with
\* tolerance 0 no selected cell differs from the seed in R, G or B.
C29_WandShape ==
    (ret.name = "select_magic_wand" /\ Seed \in CellsOf(FilledBuffer)) =>
        /\ ret.res = Ok
        /\ SelectedCells(TheSelection) =
               Similar(FilledBuffer, PixelAt(FilledBuffer, Seed), ret.cmd.tolerance,
                       {Seed})
        /\ ret.cmd.tolerance = 0 =>
               \A cell \in SelectedCells(TheSelection) :
                   SubSeq(PixelAt(FilledBuffer, cell), 1, 3) =
                       SubSeq(PixelAt(FilledBuffer, Seed), 1, 3)

(***************************************************************************)
(* The lasso on every short polygon (LassoSpec): a MaxDim x 2 selection    *)
(* holding the cell (0,0), then one select_lasso_add_point with up to four *)
(* points of LassoPoints, in every mode.  `ret.crossings` keeps the        *)
(* intersections of each scanline, row 0 first.                            *)
(***************************************************************************)
LassoPoints == {0, 1, MaxDim} \X (-1..2)

LassoStart ==
    [FreshWorld EXCEPT !.selections["p1"] =
        select_rectangle(Selection_new(MaxDim, 2), 0, 0, 0, 0, "Replace")]

LassoInit ==
    InitFrom([w |-> LassoStart,
              before |-> [FreshWorld EXCEPT !.selections["p1"] = Selection_new(MaxDim, 2)],
              ret |-> [name |-> "select_rectangle", res |-> Ok],
              marks |-> [p \in ProjectIds |-> NoMarks]])

Lasso_select_lasso_add_point ==
    /\ steps = 0
    /\ \E n \in 0..4 :
        \E points \in [1..n -> LassoPoints], mode \in SelectionModes :
            /\ selections' = [selections EXCEPT !["p1"] =
                   select_lasso_add_point(@, points, mode)]
            /\ ret' = [name |-> "select_lasso_add_point", res |-> Ok,
                       cmd |-> [points |-> points, mode |-> mode],
                       crossings |->
                           IF n < 3 THEN <<>>
                           ELSE [row \in 1..selections["p1"].height |->
                                    intersections(points, row - 1)]]
    /\ before' = World
    /\ steps' = steps + 1
    /\ UNCHANGED <<canvases, clipboard, renderer, poisoned, owner, pc, marks>>

LassoNext == Lasso_select_lasso_add_point

LassoSpec == LassoInit /\ [][LassoNext]_vars

(***************************************************************************)
(* Properties of select_lasso_add_point.                                   *)
(***************************************************************************)
\* C30: select_lasso_add_point with fewer than 3 points leaves the mask and
\* the bounds as they were, in every mode; with 3 or more points every
\* scanline has an even number of intersections.
C30_LassoPairsUp ==
    ret.name = "select_lasso_add_point" =>
        /\ Len(ret.cmd.points) < 3 => TheSelection = before.selections["p1"]
        /\ \A row \in 1..Len(ret.crossings) : Len(ret.crossings[row]) % 2 = 0

\* a Replace lasso of three points, one of them on scanline 1, has replaced
\* the selection
C30_Witness ==
    /\ ret.name = "select_lasso_add_point"
    /\ ret.cmd = [points |-> << <<0, 0>>, <<MaxDim, 1>>, <<0, 2>> >>, mode |-> "Replace"]
    /\ Len(ret.crossings[2]) = 2
    /\ TheSelection # before.selections["p1"]
    /\ is_selected(TheSelection, 1, 1)

(***************************************************************************)
(* The colour conversions (HexSpec): an opaque colour with one channel     *)
(* anywhere in 0..255 and the other two from ChannelSamples, then          *)
(* rgba_to_hex of it, then hex_to_rgba of the string.  `before` keeps the  *)
(* colour.                                                                 *)
(***************************************************************************)
ChannelSamples == {0, 171}

OpaqueColors ==
    {<<v, s, t, 255>> : v \in 0..255, s \in ChannelSamples, t \in ChannelSamples}
        \cup {<<s, v, t, 255>> : v \in 0..255, s \in ChannelSamples, t \in ChannelSamples}
        \cup {<<s, t, v, 255>> : v \in 0..255, s \in ChannelSamples, t \in ChannelSamples}

HexInit ==
    /\ canvases = FreshWorld.canvases
    /\ selections = FreshWorld.selections
    /\ clipboard = FreshWorld.clipboard
    /\ renderer = None
    /\ poisoned = {}
    /\ owner = [l \in Locks |-> Nobody]
    /\ pc = [t \in Threads |-> Idle]
    /\ ret = [name |-> "main", res |-> Ok]
    /\ \E rgba \in OpaqueColors : before = [rgba |-> rgba]
    /\ steps = 0
    /\ marks = {}

Hex_rgba_to_hex ==
    /\ ret.name = "main"
    /\ ret' = [name |-> "rgba_to_hex", res |-> [tag |-> "Ok", val |-> rgba_to_hex(before.rgba)]]
    /\ steps' = steps + 1
    /\ UNCHANGED <<canvases, selections, clipboard, renderer, poisoned, owner, pc, before,
                   marks>>

Hex_hex_to_rgba ==
    /\ ret.name = "rgba_to_hex"
    /\ ret' = [name |-> "hex_to_rgba", res |-> hex_to_rgba(ret.res.val)]
    /\ marks' = ret.res.val
    /\ steps' = steps + 1
    /\ UNCHANGED <<canvases, selections, clipboard, renderer, poisoned, owner, pc, before>>

HexNext ==
    \/ Hex_rgba_to_hex
    \/ Hex_hex_to_rgba

HexSpec == HexInit /\ [][HexNext]_vars

(***************************************************************************)
(* Properties of the colour conversions.                                   *)
(***************************************************************************)
\* C24: hex_to_rgba of rgba_to_hex of an opaque colour is that colour.
C24_HexRoundTrip ==
    ret.name = "hex_to_rgba" => ret.res = [tag |-> "Ok", val |-> before.rgba]

\* the round trip of a colour with a channel below 16 and a channel whose
\* digits are letters has returned
C24_Witness ==
    /\ ret.name = "hex_to_rgba"
    /\ ret.res.tag = "Ok"
    /\ before.rgba = <<9, 171, 0, 255>>
    /\ marks = <<"#", "0", "9", "a", "b", "0", "0">>

(***************************************************************************)
(* The buffer size under the canvas commands (SizeSpec): the host has      *)
(* created a canvas and a selection, drawn a pixel, saved the state and    *)
(* selected everything; it then re-creates the canvas with other sizes,    *)
(* draws, saves, undoes, redoes, cuts, copies and pastes.                  *)
(***************************************************************************)
SizeStart ==
    [FreshWorld EXCEPT
        !.canvases["p1"] =
            push_state([CanvasHistory_new(MaxDim, 1) EXCEPT
                           !.buffer = pencil(@, 0, 0, <<255, 0, 0, 255>>).buffer]),
        !.selections["p1"] = select_all(Selection_new(MaxDim, 1), FALSE).selection]

SizeInit ==
    /\ canvases = SizeStart.canvases
    /\ selections = SizeStart.selections
    /\ clipboard = SizeStart.clipboard
    /\ renderer = None
    /\ poisoned = {}
    /\ owner = [l \in Locks |-> Nobody]
    /\ pc = [t \in Threads |-> Idle]
    /\ ret = [name |-> "select_all", res |-> Ok, cmd |-> Cmd0("select_all")]
    /\ before = SizeStart
    /\ steps = MaxSteps - MaxSizeCalls
    /\ marks = [p \in ProjectIds |-> NoMarks]

\* the commands are drawn from sets, as the other specifications draw them
Size_create_canvas ==
    \E c \in {[name |-> "create_canvas", project_id |-> "p1",
               width |-> width, height |-> height] :
                 width \in {1, MaxDim}, height \in 1..2} : CallWithCmd(c)

Size_draw_pencil ==
    \E c \in {[name |-> "draw_pencil", project_id |-> "p1",
               x |-> x, y |-> 0, color |-> RedHex] : x \in Xs} : CallWithCmd(c)

Size_draw_fill ==
    \E c \in {[name |-> "draw_fill", project_id |-> "p1",
               x |-> x, y |-> 0, color |-> RedHex] : x \in Xs} : CallWithCmd(c)

Size_save_history_state ==
    \E c \in {Cmd0("save_history_state")} : CallWithCmd(c)

Size_undo_canvas ==
    \E c \in {Cmd0("undo_canvas")} : CallWithCmd(c)

Size_redo_canvas ==
    \E c \in {Cmd0("redo_canvas")} : CallWithCmd(c)

Size_copy_selection ==
    \E c \in {Cmd0("copy_selection")} : CallWithCmd(c)

Size_cut_selection ==
    \E c \in {Cmd0("cut_selection")} : CallWithCmd(c)

Size_paste_selection ==
    \E c \in {[name |-> "paste_selection", project_id |-> "p1", x |-> x, y |-> 0] :
                 x \in 0..1} : CallWithCmd(c)

SizeNext ==
    \/ Size_create_canvas
    \/ Size_draw_pencil
    \/ Size_draw_fill
    \/ Size_save_history_state
    \/ Size_undo_canvas
    \/ Size_redo_canvas
    \/ Size_copy_selection
    \/ Size_cut_selection
    \/ Size_paste_selection

SizeSpec == SizeInit /\ [][SizeNext]_vars

(***************************************************************************)
(* The renderer's store and dirty region (ResizeSpec): the renderer        *)
(* commands that write the store or the dirty region, and the two that     *)
(* read them back.                                                         *)
(***************************************************************************)
ResizeNext ==
    \/ Render_init_renderer
    \/ Render_draw_stroke
    \/ Render_fill_rect
    \/ Render_get_canvas_image
    \/ Render_clear_canvas
    \/ Render_resize_canvas
    \/ Render_get_dirty_bounds
    \/ Render_clear_dirty_region

ResizeSpec == RenderInit /\ [][ResizeNext]_vars

(***************************************************************************)
(* Properties of resize and of the dirty region's life cycle.              *)
(***************************************************************************)

\* the renderer commands that reach a DirtyRegion::add_* call
DirtyingCommands == {"draw_stroke", "fill_rect", "clear_canvas", "resize_canvas"}

\* C26: a resize to a positive size leaves a store of width * height * 4
\* bytes, all 255, and dirty bounds of exactly Rect(0, 0, width, height),
\* whatever was drawn and accumulated before; clear_dirty_region leaves no
\* dirty bounds, and none appear until the next draw_stroke, fill_rect,
\* clear or resize.
C26_ResizeAndCleanRegion ==
    [][ /\ ( /\ ret'.name = "resize_canvas"
             /\ ret'.res = Ok
             /\ ret'.cmd.width > 0
             /\ ret'.cmd.height > 0 ) =>
               /\ renderer'.pixels =
                      [k \in 1..(ret'.cmd.width * ret'.cmd.height * 4) |-> 255]
               /\ PixelRenderer_get_dirty_bounds(renderer') =
                      Rect_new(0, 0, ret'.cmd.width, ret'.cmd.height)
        /\ (ret'.name = "clear_dirty_region" /\ ret'.res = Ok) =>
               PixelRenderer_get_dirty_bounds(renderer') = None
        /\ ( /\ renderer # None
             /\ PixelRenderer_get_dirty_bounds(renderer) = None
             /\ ret'.name \notin DirtyingCommands ) =>
               PixelRenderer_get_dirty_bounds(renderer') = None
        /\ (ret'.name = "get_dirty_bounds" /\ ret'.res.tag = "Ok") =>
               ret'.res.val = PixelRenderer_get_dirty_bounds(renderer)
      ]_vars

\* a renderer that had been drawn on was resized to one cell
C26_Witness ==
    /\ ret.name = "resize_canvas"
    /\ ret.res = Ok
    /\ steps = MaxSteps
    /\ renderer.width = 1
    /\ renderer.pixels = <<255, 255, 255, 255>>
    /\ PixelRenderer_get_dirty_bounds(renderer) = Rect_new(0, 0, 1, 1)

(***************************************************************************)
(* Properties of the buffer size.                                          *)
(***************************************************************************)
\* C25: every canvas of the registry has a buffer of width * height * 4
\* bytes, whatever create_canvas, drawing, clipboard, push_state, undo and
\* redo commands have run.
C25_BufferLength ==
    \A p \in ProjectIds :
        canvases[p] # None =>
            /\ Len(canvases[p].buffer.data) =
                   canvases[p].buffer.width * canvases[p].buffer.height * 4
            /\ \A i \in 1..Len(canvases[p].undo_stack) :
                   Len(canvases[p].undo_stack[i]) = Len(canvases[p].buffer.data)
            /\ \A i \in 1..Len(canvases[p].redo_stack) :
                   Len(canvases[p].redo_stack[i]) = Len(canvases[p].buffer.data)

\* an undo has succeeded on a canvas that was re-created with another size
C25_Witness ==
    /\ ret.name = "undo_canvas"
    /\ ret.res = Ok
    /\ canvases["p1"].buffer.width = 1
    /\ canvases["p1"].buffer.height = 2
    /\ Len(canvases["p1"].buffer.data) = 8
    /\ Len(canvases["p1"].redo_stack) = 1

====
